---- MODULE Spec2Model ----
(***************************************************************************)
(* A model of swfrench/simple-session: the session Manager (session.go),   *)
(* the retry policy it creates sessions under (internal/retry), the token  *)
(* authenticators it names sessions with (internal/token) and the          *)
(* in-memory session store (store/memory).                                 *)
(*                                                                         *)
(* Time is counted in ticks of ten minutes, the length of both grace       *)
(* periods; the Manager is configured with a TTL of TTL ticks.             *)
(***************************************************************************)
EXTENDS Integers, Sequences, FiniteSets, TLC

VARIABLES
    now,        \* the clock read by Manager.Clock and Store.Clock
    items,      \* memory.Store.items: session ID -> stored session
    evictions,  \* memory.Store.evictions: the heap array of tracked items
    req,        \* the request (or direct Create call) in flight in the Manager
    mu,         \* memory.Store.mu: the caller holding the mutex, or 0
    callers     \* concurrent callers of memory.Store.Set, by position

vars == <<now, items, evictions, req, mu, callers>>

----------------------------------------------------------------------------
(* Bounds of the model.                                                    *)

\* Number of distinct values crypto/rand yields for an identifier payload.
NumIDs == 2
\* The clock stops advancing here.
MaxTime == 3
\* Number of concurrent callers of Store.Set.
NumCallers == 2
\* Options.TTL, the configured session TTL, in ticks.
TTL == 1
\* No session is created once the eviction queue holds this many entries
\* (Store.Del leaves the entry of the deleted key in the queue).
MaxQueue == 3
\* The ttl values and the number of distinct values passed to Store.Set by
\* a direct user of the store.
MaxTTL == 2
NumValues == 2

(* Constants of the program.                                               *)

sessionStorageGracePeriod == 1
sessionCookieGracePeriod == 1
\* The attempt budget Manager.Create passes to Backoff.Do.
createAttempts == 4

Nil == "nil"
\* The zero token (the empty string), the nil *Session and the absent cookie.
NoToken == [ver |-> "", payload |-> 0, mac |-> <<<<"", "">>, "", 0>>]
NoSession == [ID |-> NoToken, Data |-> Nil, Expiration |-> 0, CSRFToken |-> NoToken]
NoCookie == [value |-> NoToken, expires |-> 0]
IDs == 1..NumIDs
Times == 0..MaxTime

----------------------------------------------------------------------------
(* internal/token: authenticated tokens.  A token carries its version      *)
(* header, its payload and the MAC of header and payload under a key.      *)
(* HMAC-SHA256 is modelled as an ideal MAC: the MAC of a message under a   *)
(* key is the pair of the two, so distinct keys or messages give distinct  *)
(* MACs.                                                                   *)

Version == "v0"

hmac(key, ver, data) == <<key, ver, data>>

\* v0.Create
v0Create(key, data) ==
    [ver |-> Version, payload |-> data, mac |-> hmac(key, Version, data)]

\* v0.Verify, on a token that carries the v0 header
v0Verify(key, token) ==
    IF token.mac # hmac(key, token.ver, token.payload)
    THEN [data |-> 0, err |-> "ErrInvalidToken"]
    ELSE [data |-> token.payload, err |-> Nil]

\* Authenticator.Create
AuthCreate(key, data) == v0Create(key, data)

\* Authenticator.Verify
AuthVerify(key, token) ==
    IF token.ver = Version
    THEN v0Verify(key, token)
    ELSE [data |-> 0, err |-> "ErrUnsupportedVersion"]

\* deriveKeys that expands the input key under no info string
deriveKeysNoInfo(ikm, infos) == [n \in DOMAIN infos |-> <<ikm, "">>]

\* deriveKeys: HKDF expansion of the input key under an info string,
\* modelled as the pair of the two.
deriveKeys(ikm, infos) == [n \in DOMAIN infos |-> <<ikm, infos[n]>>]

managerKeys == deriveKeys("ikm", <<"session-token", "csrf-token">>)
\* Manager.sta and Manager.cta, by their keys
sta == managerKeys[1]
cta == managerKeys[2]

----------------------------------------------------------------------------
(* store/memory: the eviction queue, a container/heap min-heap on expires, *)
(* kept in an array (1-based here, 0-based in the source).                 *)

\* time.Time.Before
Before(a, b) == a < b

\* trackedItems.Less
Less(h, i, j) == Before(h[i].expires, h[j].expires)

\* trackedItems.Swap
Swap(h, i, j) == [h EXCEPT ![i] = h[j], ![j] = h[i]]

\* container/heap up: sift the element at j towards the root
RECURSIVE up(_, _)
up(h, j) ==
    LET i == j \div 2 IN
    IF j = 1 \/ ~Less(h, j, i) THEN h ELSE up(Swap(h, i, j), i)

\* down that only ever looks at the left child
RECURSIVE downLeftOnly(_, _, _)
downLeftOnly(h, i, n) ==
    LET j == 2 * i IN
    IF j > n THEN h
    ELSE IF ~Less(h, j, i) THEN h ELSE downLeftOnly(Swap(h, i, j), j, n)

\* container/heap down: sift the element at i0 towards the leaves of h[1..n]
RECURSIVE down(_, _, _)
down(h, i, n) ==
    LET j1 == 2 * i IN
    IF j1 > n THEN h
    ELSE LET j2 == j1 + 1
             j == IF j2 <= n /\ Less(h, j2, j1) THEN j2 ELSE j1
         IN IF ~Less(h, j, i) THEN h ELSE down(Swap(h, i, j), j, n)

\* evictionQueue.Push
Push(q, key, expires) ==
    up(Append(q, [expires |-> expires, key |-> key]), Len(q) + 1)

\* evictionQueue.Pop: the popped item and the remaining queue
Pop(q) ==
    LET n == Len(q)
        d == down(Swap(q, 1, n), 1, n - 1)
    IN [item |-> d[n], queue |-> SubSeq(d, 1, n - 1)]

\* evictionQueue.Peek
Peek(q) == q[1]

\* delete(m, k) on a Go map
delete(m, k) == [x \in (DOMAIN m) \ {k} |-> m[x]]

\* m[k] = v on a Go map
insert(m, k, v) == [x \in (DOMAIN m) \cup {k} |-> IF x = k THEN v ELSE m[x]]

\* A store is the pair of its item map and its eviction queue.
StoreOf(its, q) == [items |-> its, evictions |-> q]

\* evict with an if in place of the loop
evictOnce(ms, t) ==
    IF Len(ms.evictions) > 0 /\ Before(Peek(ms.evictions).expires, t)
    THEN LET p == Pop(ms.evictions)
         IN StoreOf(delete(ms.items, p.item.key), p.queue)
    ELSE ms

\* Store.evict
RECURSIVE evict(_, _)
evict(ms, t) ==
    IF Len(ms.evictions) > 0 /\ Before(Peek(ms.evictions).expires, t)
    THEN LET p == Pop(ms.evictions)
         IN evict(StoreOf(delete(ms.items, p.item.key), p.queue), t)
    ELSE ms

\* Get without the eviction pass at its entry
GetNoEvict(ms, t, sid) ==
    IF sid \notin DOMAIN ms.items
    THEN [ms |-> ms, s |-> NoSession, err |-> "ErrSessionNotFound"]
    ELSE [ms |-> ms, s |-> ms.items[sid], err |-> Nil]

\* Store.Get
Get(ms, t, sid) ==
    LET ev == evict(ms, t) IN
    IF sid \notin DOMAIN ev.items
    THEN [ms |-> ev, s |-> NoSession, err |-> "ErrSessionNotFound"]
    ELSE [ms |-> ev, s |-> ev.items[sid], err |-> Nil]

\* Set that stores without looking for a session under the ID
SetOverwrite(ms, t, sid, s, ttl) ==
    LET ev == evict(ms, t) IN
    [ms |-> StoreOf(insert(ev.items, sid, s), Push(ev.evictions, sid, t + ttl)),
     err |-> Nil]

\* Set that pushes an eviction entry although the key is present
SetPushOnExists(ms, t, sid, s, ttl) ==
    LET ev == evict(ms, t) IN
    IF sid \in DOMAIN ev.items
    THEN [ms |-> StoreOf(ev.items, Push(ev.evictions, sid, t + ttl)),
          err |-> "ErrSessionExists"]
    ELSE [ms |-> StoreOf(insert(ev.items, sid, s), Push(ev.evictions, sid, t + ttl)),
          err |-> Nil]

\* Store.Set
Set(ms, t, sid, s, ttl) ==
    LET ev == evict(ms, t) IN
    IF sid \in DOMAIN ev.items
    THEN [ms |-> ev, err |-> "ErrSessionExists"]
    ELSE [ms |-> StoreOf(insert(ev.items, sid, s), Push(ev.evictions, sid, t + ttl)),
          err |-> Nil]

\* Del that takes the entry at the head of the eviction queue out as well
DelPop(ms, t, sid) ==
    LET ev == evict(ms, t) IN
    IF sid \notin DOMAIN ev.items
    THEN [ms |-> ev, err |-> "ErrSessionNotFound"]
    ELSE [ms |-> StoreOf(delete(ev.items, sid),
                         IF Len(ev.evictions) > 0
                         THEN Pop(ev.evictions).queue ELSE ev.evictions),
          err |-> Nil]

\* Store.Del
Del(ms, t, sid) ==
    LET ev == evict(ms, t) IN
    IF sid \notin DOMAIN ev.items
    THEN [ms |-> ev, err |-> "ErrSessionNotFound"]
    ELSE [ms |-> StoreOf(delete(ev.items, sid), ev.evictions), err |-> Nil]

----------------------------------------------------------------------------
(* store.SessionStore as the Manager sees it: the in-memory store, or a    *)
(* backend that fails the call with one of the errors of the interface     *)
(* before it touches the stored data (fault # Nil).                        *)

GetFaults == {Nil, "backend", "ErrInvalidStoredSessionData"}
SetFaults == {Nil, "backend", "ErrInvalidSessionData"}

storeGet(ms, t, sid, fault) ==
    IF fault # Nil THEN [ms |-> ms, s |-> NoSession, err |-> fault] ELSE Get(ms, t, sid)

storeSet(ms, t, sid, s, ttl, fault) ==
    IF fault # Nil THEN [ms |-> ms, err |-> fault] ELSE Set(ms, t, sid, s, ttl)

DelFaults == {Nil, "backend"}

storeDel(ms, t, sid, fault) ==
    IF fault # Nil THEN [ms |-> ms, err |-> fault] ELSE Del(ms, t, sid)

----------------------------------------------------------------------------
(* session.go: the Manager.                                                *)

\* Session
Session(id, data, expiration, csrf) ==
    [ID |-> id, Data |-> data, Expiration |-> expiration, CSRFToken |-> csrf]

\* Manager.createSessionToken and Manager.createCSRFToken, on the payload
\* that createID drew
createSessionToken(data) == AuthCreate(sta, data)
createCSRFToken(data) == AuthCreate(cta, data)

\* A cookie value that is no token at all ("nope").
nopeCookie == [ver |-> "nope", payload |-> 0, mac |-> <<<<"", "">>, "", 0>>]

\* The session cookies a client can present: none, an authentic session ID
\* (issued by this Manager or by an earlier run under the same key), a CSRF
\* token, or a string that is no token.
Cookies ==
    {NoToken, nopeCookie, createCSRFToken(1)} \cup {createSessionToken(i) : i \in IDs}

\* The CSRF tokens a client can submit: an authentic CSRF token of this
\* Manager (of a session in the store or of one that is gone), a session ID,
\* a v0 token made under a key that is not the Manager's, or a string that
\* is no token.
CSRFTokens ==
    {createCSRFToken(i) : i \in IDs}
        \cup {createSessionToken(1), AuthCreate(<<"other", "csrf-token">>, 1), nopeCookie}

\* getSIDCookie that returns the value of the cookie without verifying it
getSIDCookieNoVerify(cookie) ==
    IF cookie = NoToken THEN [sid |-> NoToken, err |-> "errNoSIDCookie"]
    ELSE [sid |-> cookie, err |-> Nil]

\* Manager.getSIDCookie
getSIDCookie(cookie) ==
    IF cookie = NoToken THEN [sid |-> NoToken, err |-> "errNoSIDCookie"]
    ELSE LET v == AuthVerify(sta, cookie) IN
         IF v.err # Nil THEN [sid |-> NoToken, err |-> v.err]
         ELSE [sid |-> cookie, err |-> Nil]

\* lookup with the expiry test left out
lookupNoExpiry(ms, t, sid, fault) == storeGet(ms, t, sid, fault)

\* lookup with the expiry test made strict: a session is expired at the very
\* instant of its Expiration
lookupStrict(ms, t, sid, fault) ==
    LET g == storeGet(ms, t, sid, fault) IN
    IF g.err # Nil THEN g
    ELSE IF ~Before(t, g.s.Expiration)
         THEN [ms |-> g.ms, s |-> NoSession, err |-> "errExpiredSession"]
         ELSE g

\* lookup that lets a session live one tick past its Expiration
lookupLate(ms, t, sid, fault) ==
    LET g == storeGet(ms, t, sid, fault) IN
    IF g.err # Nil THEN g
    ELSE IF Before(g.s.Expiration + 1, t)
         THEN [ms |-> g.ms, s |-> NoSession, err |-> "errExpiredSession"]
         ELSE g

\* lookup that deletes the session it finds expired
lookupDelExpired(ms, t, sid, fault) ==
    LET g == storeGet(ms, t, sid, fault) IN
    IF g.err # Nil THEN g
    ELSE IF Before(g.s.Expiration, t)
         THEN [ms |-> Del(g.ms, t, sid).ms, s |-> NoSession,
               err |-> "errExpiredSession"]
         ELSE g

\* Manager.lookup
lookup(ms, t, sid, fault) ==
    LET g == storeGet(ms, t, sid, fault) IN
    IF g.err # Nil THEN g
    ELSE IF Before(g.s.Expiration, t)
         THEN [ms |-> g.ms, s |-> NoSession, err |-> "errExpiredSession"]
         ELSE g

\* Manager.setSIDCookie: the cookie written to the response
setSIDCookie(t, sid) ==
    [value |-> sid, expires |-> t + TTL + sessionCookieGracePeriod]

\* The work function of Create that calls Abort on no error
workResultNoAbort(err) == [done |-> err = Nil, aborted |-> FALSE]

\* The work function of Create that takes ErrSessionExists for success
workResultDoneOnExists(err) ==
    [done |-> err \in {Nil, "ErrSessionExists"},
     aborted |-> err = "ErrInvalidSessionData"]

\* The work function of Create that calls Abort on every error of the store
\* interface
workResultAbortExists(err) ==
    [done |-> err = Nil,
     aborted |-> err \in {"ErrInvalidSessionData", "ErrSessionExists"}]

\* The work function of Manager.Create, from the return of Store.Set: which
\* of Done and Abort it calls.
workResult(err) ==
    [done |-> err = Nil, aborted |-> err = "ErrInvalidSessionData"]

\* Do that looks at aborted before done
DoAfterAbortFirst(i, n, done, aborted) ==
    IF aborted THEN "ErrAborted"
    ELSE IF done THEN Nil
    ELSE IF i < n THEN "sleep"
    ELSE "ErrExhausted"

\* Do with a loop that runs one time too many
DoAfterOneMore(i, n, done, aborted) ==
    IF done THEN Nil
    ELSE IF aborted THEN "ErrAborted"
    ELSE IF i <= n THEN "sleep"
    ELSE "ErrExhausted"

\* Do that sleeps before it looks at what fn reported
DoAfterSleepFirst(i, n, done, aborted) ==
    IF i < n THEN "sleep"
    ELSE IF done THEN Nil
    ELSE IF aborted THEN "ErrAborted"
    ELSE "ErrExhausted"

\* retry.Backoff.Do, the loop body after fn returned in attempt i of n:
\* the error Do returns, or "sleep" when Do sleeps and tries again.
DoAfter(i, n, done, aborted) ==
    IF done THEN Nil
    ELSE IF aborted THEN "ErrAborted"
    ELSE IF i < n THEN "sleep"
    ELSE "ErrExhausted"

\* The request at rest.  Besides the locals of wrapHandler and Create
\* (cookie, data, i, s, err) and the response (respCookie, status, handler,
\* ctx), the request keeps what happened to it: the errors of getSIDCookie
\* and lookup, the session Store.Get returned (got), the number of Store.Set
\* calls (setCalls) and of those that returned ErrSessionExists (nExists),
\* the outcome of the latest attempt (last), the number of sleeps, the
\* record found in the store right after the successful Set (stored), and
\* whether a record was stored under the presented cookie when that Set ran
\* (ckStored).  It also keeps the calls of the OnCreate hook (hooks) and the
\* session passed to the latest (hookS); for Clear, the sid argument, the
\* record stored under it when Clear was called (prior), the number of
\* Store.Del calls and the error of the latest; for VerifySessionCSRFToken,
\* the token argument (the session argument is s, the result err).
idleReq ==
    [pc |-> "idle", op |-> Nil, cookie |-> NoToken, data |-> Nil,
     cookieErr |-> Nil, getKeys |-> {}, lookupErr |-> Nil, got |-> NoSession,
     i |-> 0, setCalls |-> 0, nExists |-> 0, last |-> Nil, sleeps |-> 0,
     s |-> NoSession, stored |-> NoSession, ckStored |-> FALSE,
     err |-> Nil, respCookie |-> NoCookie, status |-> 0, handler |-> FALSE,
     ctx |-> NoSession,
     hooks |-> 0, hookS |-> NoSession,
     sid |-> NoToken, prior |-> NoSession, delCalls |-> 0, delErr |-> Nil,
     token |-> NoToken]

\* wrapHandler that puts the looked-up session into the context
wrapAfterCreateLookup(r, s, err) ==
    IF err # Nil
    THEN [r EXCEPT !.pc = "done", !.status = 500]
    ELSE [r EXCEPT !.pc = "done", !.handler = TRUE, !.ctx = r.got]

\* wrapHandler that does not return after it answered with the server error
wrapAfterCreateNoReturn(r, s, err) ==
    [r EXCEPT !.pc = "done", !.status = IF err # Nil THEN 500 ELSE @,
              !.handler = TRUE, !.ctx = s]

\* Manager.wrapHandler, from the Create call's return to the end: the server
\* error, or the downstream handler run with the session in its context.
wrapAfterCreate(r, s, err) ==
    IF err # Nil
    THEN [r EXCEPT !.pc = "done", !.status = 500]
    ELSE [r EXCEPT !.pc = "done", !.handler = TRUE, !.ctx = s]

\* Create that writes the session cookie before it looks at the error of Do
createAfterDoCookieFirst(r, t, err) ==
    LET r1 == IF err # Nil
              THEN [r EXCEPT !.err = err, !.s = NoSession,
                             !.respCookie = setSIDCookie(t, r.s.ID)]
              ELSE [r EXCEPT !.respCookie = setSIDCookie(t, r.s.ID),
                             !.hooks = @ + 1, !.hookS = r.s]
    IN IF r.op = "manage" THEN wrapAfterCreate(r1, r1.s, err)
       ELSE IF r.op = "clear" /\ err = Nil THEN [r1 EXCEPT !.pc = "del"]
       ELSE [r1 EXCEPT !.pc = "done"]

\* Create that never invokes the OnCreate hook
createAfterDoNoHook(r, t, err) ==
    LET r1 == IF err # Nil
              THEN [r EXCEPT !.err = err, !.s = NoSession]
              ELSE [r EXCEPT !.respCookie = setSIDCookie(t, r.s.ID)]
    IN IF r.op = "manage" THEN wrapAfterCreate(r1, r1.s, err)
       ELSE IF r.op = "clear" /\ err = Nil THEN [r1 EXCEPT !.pc = "del"]
       ELSE [r1 EXCEPT !.pc = "done"]

\* Clear that calls Store.Del whether or not Create failed
createAfterDoAlwaysDel(r, t, err) ==
    LET r1 == IF err # Nil
              THEN [r EXCEPT !.err = err, !.s = NoSession]
              ELSE [r EXCEPT !.respCookie = setSIDCookie(t, r.s.ID),
                             !.hooks = @ + 1, !.hookS = r.s]
    IN IF r.op = "manage" THEN wrapAfterCreate(r1, r1.s, err)
       ELSE IF r.op = "clear" THEN [r1 EXCEPT !.pc = "del"]
       ELSE [r1 EXCEPT !.pc = "done"]

\* Manager.Create, from the return of Backoff.Do to its own return (the
\* cookie is written and the OnCreate hook, which the Manager is configured
\* with, invoked), and on to the caller: wrapHandler, Clear (which returns
\* on an error and goes on to Store.Del otherwise) or the application.
createAfterDo(r, t, err) ==
    LET r1 == IF err # Nil
              THEN [r EXCEPT !.err = err, !.s = NoSession]
              ELSE [r EXCEPT !.respCookie = setSIDCookie(t, r.s.ID),
                             !.hooks = @ + 1, !.hookS = r.s]
    IN IF r.op = "manage" THEN wrapAfterCreate(r1, r1.s, err)
       ELSE IF r.op = "clear" /\ err = Nil THEN [r1 EXCEPT !.pc = "del"]
       ELSE [r1 EXCEPT !.pc = "done"]

\* Clear that returns the error of Store.Del
clearAfterDelFatal(r, derr) ==
    [r EXCEPT !.pc = "done", !.delCalls = @ + 1, !.delErr = derr,
              !.err = IF derr \notin {Nil, "ErrSessionNotFound"} THEN derr ELSE @,
              !.s = IF derr \notin {Nil, "ErrSessionNotFound"} THEN NoSession ELSE @]

\* Manager.Clear, from the return of Store.Del to its own return: the error
\* is at most logged and the new pre-session returned.
clearAfterDel(r, derr) ==
    [r EXCEPT !.pc = "done", !.delCalls = @ + 1, !.delErr = derr]

\* VerifySessionCSRFToken that only tests the authenticity of the token
VerifySessionCSRFTokenAnySession(token, s) == AuthVerify(cta, token).err

\* Manager.VerifySessionCSRFToken: the error it returns
VerifySessionCSRFToken(token, s) ==
    LET v == AuthVerify(cta, token) IN
    IF v.err # Nil THEN v.err
    ELSE IF token # s.CSRFToken THEN "errCSRFMismatch"
    ELSE Nil

----------------------------------------------------------------------------
(* The Manager serving one request after another against the store, the    *)
(* clock advancing at any point.                                           *)

Init ==
    /\ now = 0
    /\ items = [x \in {} |-> NoSession]
    /\ evictions = << >>
    /\ req = idleReq
    /\ mu = 0
    /\ callers = << >>

\* The clock advances.
Tick ==
    /\ now < MaxTime
    /\ now' = now + 1
    /\ UNCHANGED <<items, evictions, req, mu, callers>>

\* Manager.wrapHandler up to the Create call: the cookie is read and
\* verified, the session looked up, and a session found is served.
ManageBegin(cookie, fault) ==
    /\ req.pc = "idle"
    /\ LET c == getSIDCookie(cookie)
           lk == IF c.err = Nil
                 THEN lookup(StoreOf(items, evictions), now, c.sid, fault)
                 ELSE [ms |-> StoreOf(items, evictions), s |-> NoSession, err |-> Nil]
           r == [idleReq EXCEPT !.op = "manage", !.cookie = cookie,
                                !.cookieErr = c.err,
                                !.getKeys = IF c.err = Nil THEN {c.sid} ELSE {},
                                !.lookupErr = lk.err, !.got = lk.s]
       IN /\ items' = lk.ms.items
          /\ evictions' = lk.ms.evictions
          /\ req' = IF c.err = Nil /\ lk.err = Nil
                    THEN wrapAfterCreate(r, lk.s, Nil)
                    ELSE [r EXCEPT !.pc = "create", !.i = 1]
    /\ UNCHANGED <<now, mu, callers>>

\* The application calls Manager.Create with a data payload.
CreateBegin(data) ==
    /\ req.pc = "idle"
    /\ Len(evictions) < MaxQueue
    /\ req' = [idleReq EXCEPT !.op = "create", !.data = data,
                              !.pc = "create", !.i = 1]
    /\ UNCHANGED <<now, items, evictions, mu, callers>>

\* One attempt of Manager.Create: the work function draws the identifiers
\* (crypto/rand is taken to deliver them), builds the session and calls
\* Store.Set; Backoff.Do returns or goes to sleep; Create and wrapHandler run
\* on when Do returns.
Attempt(idr, csrfr, fault) ==
    /\ req.pc = "create"
    /\ LET ms == StoreOf(items, evictions)
           id == createSessionToken(idr)
           snew == Session(id, req.data, now + TTL, createCSRFToken(csrfr))
           st == storeSet(ms, now, id, snew,
                          TTL + sessionStorageGracePeriod, fault)
           w == workResult(st.err)
           next == DoAfter(req.i, createAttempts, w.done, w.aborted)
           r == [req EXCEPT
                   !.setCalls = @ + 1,
                   !.nExists = IF st.err = "ErrSessionExists" THEN @ + 1 ELSE @,
                   !.last = IF st.err = Nil THEN "ok" ELSE st.err,
                   !.s = IF w.done THEN snew ELSE @,
                   !.stored = IF w.done /\ id \in DOMAIN st.ms.items
                              THEN st.ms.items[id] ELSE @,
                   !.ckStored = IF w.done
                                THEN req.cookie \in DOMAIN evict(ms, now).items
                                ELSE @]
       IN /\ items' = st.ms.items
          /\ evictions' = st.ms.evictions
          /\ req' = IF next = "sleep"
                    THEN [r EXCEPT !.pc = "sleep"]
                    ELSE createAfterDo(r, now, next)
    /\ UNCHANGED <<now, mu, callers>>

\* Backoff.Do sleeps between two attempts.
Sleep ==
    /\ req.pc = "sleep"
    /\ req' = [req EXCEPT !.pc = "create", !.i = @ + 1, !.sleeps = @ + 1]
    /\ UNCHANGED <<now, items, evictions, mu, callers>>

\* The response is sent; the Manager takes the next request.
Finish ==
    /\ req.pc = "done"
    /\ req' = idleReq
    /\ UNCHANGED <<now, items, evictions, mu, callers>>

\* The application calls Manager.VerifySessionCSRFToken with a submitted
\* token and a session of the store.
VerifyCSRF(token, sid) ==
    /\ req.pc = "idle"
    /\ sid \in DOMAIN items
    /\ req' = [idleReq EXCEPT !.op = "verify", !.token = token,
                              !.s = items[sid],
                              !.err = VerifySessionCSRFToken(token, items[sid]),
                              !.pc = "done"]
    /\ UNCHANGED <<now, items, evictions, mu, callers>>

Next ==
    \/ Tick
    \/ \E c \in Cookies, f \in GetFaults : ManageBegin(c, f)
    \/ \E d \in {"d"} : CreateBegin(d)
    \/ \E i \in IDs, c \in IDs, f \in SetFaults : Attempt(i, c, f)
    \/ Sleep
    \/ \E t \in CSRFTokens, i \in IDs : VerifyCSRF(t, createSessionToken(i))
    \/ Finish

Spec == Init /\ [][Next]_vars

----------------------------------------------------------------------------
(* The application creating sessions with Manager.Create and replacing     *)
(* them with Manager.Clear, against the in-memory store.                   *)

\* The application calls Manager.Clear with a session ID; Clear calls
\* Create(nil).
ClearBegin(sid) ==
    /\ req.pc = "idle"
    /\ Len(evictions) < MaxQueue
    /\ req' = [idleReq EXCEPT !.op = "clear", !.sid = sid,
                              !.prior = IF sid \in DOMAIN items
                                        THEN items[sid] ELSE NoSession,
                              !.pc = "create", !.i = 1]
    /\ UNCHANGED <<now, items, evictions, mu, callers>>

\* Manager.Clear after Create succeeded: Store.Del on the prior session ID,
\* and the return.
ClearDel(fault) ==
    /\ req.pc = "del"
    /\ LET d == storeDel(StoreOf(items, evictions), now, req.sid, fault)
       IN /\ items' = d.ms.items
          /\ evictions' = d.ms.evictions
          /\ req' = clearAfterDel(req, d.err)
    /\ UNCHANGED <<now, mu, callers>>

NextClear ==
    \/ Tick
    \/ \E d \in {"d"} : CreateBegin(d)
    \/ \E i \in IDs : ClearBegin(createSessionToken(i))
    \/ \E i \in IDs, c \in IDs, f \in SetFaults : Attempt(i, c, f)
    \/ Sleep
    \/ \E f \in DelFaults : ClearDel(f)
    \/ Finish

SpecClear == Init /\ [][NextClear]_vars

----------------------------------------------------------------------------
(* Concurrent calls of the in-memory Store.Set, statement by statement:    *)
(* each caller picks an ID, takes the mutex, reads the clock and evicts,   *)
(* looks the ID up, inserts its value and pushes the eviction entry; the   *)
(* deferred Unlock runs when Set returns.                                  *)

Callers == 1..NumCallers

\* The ttl the callers pass to Set.
setTTL == TTL + sessionStorageGracePeriod

\* The value caller c passes to Set.
valueOf(c) == [owner |-> c]

idleCaller == [pc |-> "idle", sid |-> NoToken, t |-> 0, err |-> Nil]

\* A Lock that does not wait for the mutex to be free
canLockAlways(m) == TRUE

\* sync.Mutex.Lock returns once no caller holds the mutex.
canLock(m) == m = 0

InitSet ==
    /\ now = 0
    /\ items = [x \in {} |-> valueOf(0)]
    /\ evictions = << >>
    /\ req = idleReq
    /\ mu = 0
    /\ callers = [c \in Callers |-> idleCaller]

\* Caller c calls Set with the ID of payload idr.
SetCall(c, idr) ==
    /\ callers[c].pc = "idle"
    /\ callers' = [callers EXCEPT ![c].pc = "lock",
                                  ![c].sid = createSessionToken(idr)]
    /\ UNCHANGED <<now, items, evictions, req, mu>>

\* ms.mu.Lock()
SetLock(c) ==
    /\ callers[c].pc = "lock"
    /\ canLock(mu)
    /\ mu' = c
    /\ callers' = [callers EXCEPT ![c].pc = "evict"]
    /\ UNCHANGED <<now, items, evictions, req>>

\* t := ms.Clock(); ms.evict(t)
SetEvict(c) ==
    /\ callers[c].pc = "evict"
    /\ LET ev == evict(StoreOf(items, evictions), now)
       IN /\ items' = ev.items
          /\ evictions' = ev.evictions
    /\ callers' = [callers EXCEPT ![c].pc = "check", ![c].t = now]
    /\ UNCHANGED <<now, req, mu>>

\* if _, ok := ms.items[sid]; ok { return store.ErrSessionExists }
SetCheck(c) ==
    /\ callers[c].pc = "check"
    /\ IF callers[c].sid \in DOMAIN items
       THEN /\ callers' = [callers EXCEPT ![c].pc = "done",
                                          ![c].err = "ErrSessionExists"]
            /\ mu' = 0
       ELSE /\ callers' = [callers EXCEPT ![c].pc = "insert"]
            /\ mu' = mu
    /\ UNCHANGED <<now, items, evictions, req>>

\* ms.items[sid] = s
SetInsert(c) ==
    /\ callers[c].pc = "insert"
    /\ items' = insert(items, callers[c].sid, valueOf(c))
    /\ callers' = [callers EXCEPT ![c].pc = "push"]
    /\ UNCHANGED <<now, evictions, req, mu>>

\* ms.evictions.Push(sid, t.Add(ttl)); return nil
SetPush(c) ==
    /\ callers[c].pc = "push"
    /\ evictions' = Push(evictions, callers[c].sid, callers[c].t + setTTL)
    /\ callers' = [callers EXCEPT ![c].pc = "done"]
    /\ mu' = 0
    /\ UNCHANGED <<now, items, req>>

NextSet ==
    \/ Tick
    \/ \E c \in Callers, i \in IDs : SetCall(c, i)
    \/ \E c \in Callers : SetLock(c)
    \/ \E c \in Callers : SetEvict(c)
    \/ \E c \in Callers : SetCheck(c)
    \/ \E c \in Callers : SetInsert(c)
    \/ \E c \in Callers : SetPush(c)

SpecSet == InitSet /\ [][NextSet]_vars

\* The callers whose Set on id has returned, and those of them it returned
\* nil to.
DoneOn(id) == {c \in Callers : callers[c].pc = "done" /\ callers[c].sid = id}
Won(id) == {c \in DoneOn(id) : callers[c].err = Nil}

\* The record caller w stored is in the store for a call that reads the
\* clock at t: it was stored by then and t is not past its expiry.
Live(w, t) == callers[w].t <= t /\ t <= callers[w].t + setTTL

\* C6: of the Set calls on one ID that started on an empty store, no two
\* succeed while the record of one of them is live, every other call
\* returns ErrSessionExists and does so against a live record of a call
\* that succeeded; when all callers called Set on the ID within one ttl,
\* exactly one succeeded, and the record in the store is the value it
\* passed.
C6_AtomicCreateIfAbsent ==
    \A id \in {createSessionToken(i) : i \in IDs} :
        /\ \A c \in DoneOn(id) : callers[c].err \in {Nil, "ErrSessionExists"}
        /\ \A c \in DoneOn(id) \ Won(id) :
               \E w \in Won(id) : Live(w, callers[c].t)
        /\ \A c \in Won(id) : \A w \in Won(id) \ {c} : ~Live(w, callers[c].t)
        /\ (/\ DoneOn(id) = Callers
            /\ \A c \in Callers : \A d \in Callers :
                   callers[c].t <= callers[d].t + setTTL)
           => /\ Cardinality(Won(id)) = 1
              /\ id \in DOMAIN items
                 => \E w \in Won(id) : items[id] = valueOf(w)

C6_Witness ==
    \E id \in {createSessionToken(i) : i \in IDs} :
        /\ DoneOn(id) = Callers
        /\ Cardinality(Won(id)) = 1
        /\ \A c \in Callers \ Won(id) : callers[c].err = "ErrSessionExists"
        /\ id \in DOMAIN items
        /\ \E w \in Won(id) : items[id] = valueOf(w)

----------------------------------------------------------------------------
(* The in-memory store used directly: Set, Get and Del on a few keys, the  *)
(* clock advancing in between.  req is the latest call and its result;     *)
(* callers keeps, per key, the latest successful Set (its time, ttl and     *)
(* value), whether that Set followed the expiry of the key's earlier        *)
(* record, and whether the key was ever deleted by Del.                     *)

Keys == {createSessionToken(i) : i \in IDs}

noSet ==
    [set |-> FALSE, t |-> 0, ttl |-> 0, v |-> valueOf(0),
     after |-> FALSE, deleted |-> FALSE, live |-> FALSE]

noCall == [op |-> Nil, sid |-> NoToken, s |-> valueOf(0), err |-> Nil, seq |-> 0]

\* The clock has advanced past the time of the key's latest successful Set
\* plus its ttl.
Expired(k) == callers[k].set /\ now > callers[k].t + callers[k].ttl

InitStore ==
    /\ now = 0
    /\ items = [x \in {} |-> valueOf(0)]
    /\ evictions = << >>
    /\ req = noCall
    /\ mu = 0
    /\ callers = [k \in Keys |-> noSet]

\* Store.Set(k, v, ttl)
StoreSet(k, v, ttl) ==
    /\ Len(evictions) < MaxQueue
    /\ LET r == Set(StoreOf(items, evictions), now, k, valueOf(v), ttl)
       IN /\ items' = r.ms.items
          /\ evictions' = r.ms.evictions
          /\ req' = [op |-> "Set", sid |-> k, s |-> valueOf(v), err |-> r.err,
                     seq |-> 1 - req.seq]
          /\ callers' = IF r.err # Nil THEN callers
                        ELSE [callers EXCEPT ![k] =
                                [set |-> TRUE, t |-> now, ttl |-> ttl,
                                 v |-> valueOf(v), after |-> Expired(k),
                                 deleted |-> @.deleted, live |-> TRUE]]
    /\ UNCHANGED <<now, mu>>

\* Store.Get(k)
StoreGet(k) ==
    /\ LET r == Get(StoreOf(items, evictions), now, k)
       IN /\ items' = r.ms.items
          /\ evictions' = r.ms.evictions
          /\ req' = [op |-> "Get", sid |-> k,
                     s |-> IF r.err = Nil THEN r.s ELSE valueOf(0),
                     err |-> r.err, seq |-> 1 - req.seq]
    /\ UNCHANGED <<now, mu, callers>>

\* Store.Del(k)
StoreDel(k) ==
    /\ LET r == Del(StoreOf(items, evictions), now, k)
       IN /\ items' = r.ms.items
          /\ evictions' = r.ms.evictions
          /\ req' = [op |-> "Del", sid |-> k, s |-> valueOf(0), err |-> r.err,
                     seq |-> 1 - req.seq]
          /\ callers' = IF r.err # Nil THEN callers
                        ELSE [callers EXCEPT ![k].deleted = TRUE,
                                             ![k].live = FALSE]
    /\ UNCHANGED <<now, mu>>

NextStore ==
    \/ Tick
    \/ \E k \in Keys, v \in 1..NumValues, ttl \in 1..MaxTTL : StoreSet(k, v, ttl)
    \/ \E k \in Keys : StoreGet(k)
    \/ \E k \in Keys : StoreDel(k)

SpecStore == InitStore /\ [][NextStore]_vars

----------------------------------------------------------------------------
(* Properties of the Manage middleware.                                    *)

\* A request of the middleware has been answered.
ManageDone == req.pc = "done" /\ req.op = "manage"

\* Every Store.Set call of the request returned nil or ErrSessionExists.
WorkingStore ==
    req.setCalls = req.nExists + (IF req.last = "ok" THEN 1 ELSE 0)

\* The cookie failed verification, or verified and lookup failed.
LookupFailed ==
    \/ req.cookieErr \notin {Nil, "errNoSIDCookie"}
    \/ req.cookieErr = Nil /\ req.lookupErr # Nil

C2_ReusesSession ==
    [][(/\ req.pc = "idle"
        /\ req'.op = "manage"
        /\ req'.cookie \in DOMAIN items
        /\ ~Before(items[req'.cookie].Expiration, now)
        /\ req'.lookupErr \notin {"backend", "ErrInvalidStoredSessionData"})
       => /\ req'.pc = "done"
          /\ req'.handler
          /\ req'.ctx = items[req'.cookie]
          /\ req'.ctx.ID = req'.cookie
          /\ req'.respCookie = NoCookie
          /\ req'.setCalls = 0
          /\ DOMAIN items' \subseteq DOMAIN items]_vars

C2_Witness ==
    /\ ManageDone
    /\ req.handler
    /\ req.setCalls = 0
    /\ req.ctx.ID = req.cookie
    /\ req.respCookie = NoCookie

C5_ValidSessionInContext ==
    [][(~req.handler /\ req'.handler)
       => /\ req'.ctx # NoSession
          /\ \/ /\ req'.last = "ok"
                /\ req'.ctx = req'.s
                /\ req'.ctx = req'.stored
             \/ /\ req'.setCalls = 0
                /\ req'.cookieErr = Nil
                /\ req'.lookupErr = Nil
                /\ req'.cookie \in DOMAIN items'
                /\ req'.ctx = items'[req'.cookie]
                /\ ~Before(req'.ctx.Expiration, now')]_vars

C5_Witness ==
    /\ req.handler
    /\ req.setCalls = 0
    /\ req.ctx.Data = "d"
    /\ req.ctx.Expiration = now

----------------------------------------------------------------------------
(* Properties of Manager.Create.                                           *)

\* C7: Create makes at most createAttempts (4) Store.Set calls and is over
\* once the last of them returned; when every call failed with an error
\* other than ErrInvalidSessionData, it made exactly 4 calls and returns the
\* error of the exhausted budget and no session.
C7_BoundedAttempts ==
    /\ req.i <= createAttempts
    /\ req.setCalls <= createAttempts
    /\ req.pc = "sleep" => req.i < createAttempts
    /\ req.pc = "create" => req.setCalls = req.i - 1
    /\ req.setCalls = createAttempts => req.pc = "done"
    /\ (/\ req.pc = "done"
        /\ req.setCalls >= 1
        /\ req.last \notin {"ok", "ErrInvalidSessionData"})
       => /\ req.setCalls = createAttempts
          /\ req.err = "ErrExhausted"
          /\ req.s = NoSession

C7_Witness ==
    /\ req.pc = "done"
    /\ req.setCalls = createAttempts
    /\ req.nExists = 0
    /\ req.last = "backend"
    /\ req.err = "ErrExhausted"

\* C8: once Store.Set returned ErrInvalidSessionData, Create is over: it
\* returns an error and no session, and that call was its last Store.Set
\* call, with no sleep after it.
C8_AbortOnInvalidData ==
    req.last = "ErrInvalidSessionData"
    => /\ req.pc = "done"
       /\ req.err = "ErrAborted"
       /\ req.s = NoSession
       /\ req.setCalls = req.i
       /\ req.sleeps = req.i - 1
       /\ req.respCookie = NoCookie

C8_Witness ==
    /\ req.last = "ErrInvalidSessionData"
    /\ req.pc = "done"
    /\ req.setCalls = 2
    /\ req.sleeps = 1

\* C9: a Store.Set call that returns ErrSessionExists changes no stored
\* record and is retried while the budget lasts, so that Create ends on it
\* only with the budget exhausted; the attempt that succeeds stores its
\* session under an ID that was free and leaves every other record as it
\* was; against a store whose Set works, Create fails only if all 4 attempts
\* collided.
C9_CollisionRetried ==
    [][/\ (req'.pc = "done" /\ req'.last = "ErrSessionExists")
          => /\ req'.setCalls = createAttempts
             /\ req'.err = "ErrExhausted"
       /\ (req'.setCalls = req.setCalls + 1 /\ req'.last = "ErrSessionExists")
          => /\ req'.pc = (IF req.i < createAttempts THEN "sleep" ELSE "done")
             /\ items' = evict(StoreOf(items, evictions), now).items
             /\ \A k \in DOMAIN items' : items'[k] = items[k]
       /\ (req'.setCalls = req.setCalls + 1 /\ req'.last = "ok")
          => /\ req'.s.ID \notin DOMAIN evict(StoreOf(items, evictions), now).items
             /\ items'[req'.s.ID] = req'.s
             /\ \A k \in DOMAIN items' \ {req'.s.ID} : items'[k] = items[k]
       /\ (req'.pc = "done" /\ req'.setCalls >= 1 /\ req'.err # Nil
             /\ req'.setCalls = req'.nExists)
          => req'.nExists = createAttempts]_vars

C9_Witness ==
    /\ req.pc = "done"
    /\ req.nExists >= 1
    /\ req.last = "ok"
    /\ req.err = Nil
    /\ now = 0

\* C10: when Store.Set fails with an error that is neither ErrSessionExists
\* nor ErrInvalidSessionData and a later call within the budget succeeds,
\* Create is over with that call: it returns the session that call stored,
\* with no error, and the session cookie carrying its ID is written.
C10_TransientThenSuccess ==
    (req.last = "ok" /\ req.setCalls - req.nExists >= 2)
    => /\ req.pc = "done"
       /\ req.err = Nil
       /\ req.s # NoSession
       /\ req.s = req.stored
       /\ req.respCookie.value = req.s.ID
       /\ req.setCalls = req.i
       /\ req.setCalls <= createAttempts
       /\ req.op = "manage" => req.handler /\ req.ctx = req.s

C10_Witness ==
    /\ req.pc = "done"
    /\ req.op = "manage"
    /\ req.setCalls = 2
    /\ req.nExists = 0
    /\ req.last = "ok"
    /\ req.handler
    /\ req.respCookie.value = req.s.ID

\* An attempt of Create was made in the step and its Store.Set failed.
FailedAttemptStep ==
    req'.setCalls = req.setCalls + 1 /\ req'.last # "ok"

\* C11: a Create call that failed returns no session, has written no
\* session cookie, has not invoked the OnCreate hook and none of its
\* Store.Set calls succeeded; an attempt whose Store.Set fails adds no record
\* to the store and changes none.
C11_FailedCreateNoEffect ==
    [][/\ (req'.pc = "done" /\ req'.op \in {"create", "manage"} /\ req'.err # Nil)
          => /\ req'.s = NoSession
             /\ req'.respCookie = NoCookie
             /\ req'.hooks = 0
             /\ req'.hookS = NoSession
             /\ req'.stored = NoSession
             /\ req'.last \notin {Nil, "ok"}
       /\ FailedAttemptStep
          => /\ DOMAIN items' \subseteq DOMAIN items
             /\ \A k \in DOMAIN items' : items'[k] = items[k]]_vars

C11_Witness ==
    /\ req.pc = "done"
    /\ req.op = "create"
    /\ req.err = "ErrAborted"
    /\ req.setCalls = 3
    /\ req.nExists = 1
    /\ req.respCookie = NoCookie

\* C12: when Create has succeeded, the session it returns is the record
\* found in the store under the returned ID right after Store.Set, the
\* session cookie written carries that ID, the OnCreate hook was invoked
\* exactly once and with that session; the hook is invoked at most once in
\* any Create.
C12_OneIDEverywhere ==
    /\ req.hooks <= 1
    /\ (req.pc = "done" /\ req.op \in {"create", "manage"}
            /\ req.setCalls >= 1 /\ req.err = Nil)
       => /\ req.s # NoSession
          /\ req.stored = req.s
          /\ req.respCookie.value = req.s.ID
          /\ req.hooks = 1
          /\ req.hookS = req.s
          /\ req.hookS.ID = req.respCookie.value

C12_Witness ==
    /\ req.pc = "done"
    /\ req.op = "create"
    /\ req.err = Nil
    /\ req.nExists = 1
    /\ req.hooks = 1
    /\ req.s.Data = "d"
    /\ req.hookS.ID = req.respCookie.value

----------------------------------------------------------------------------
(* Properties of Manager.Clear.                                            *)

\* A Clear call has returned.
ClearDone == req.pc = "done" /\ req.op = "clear"

\* C13: after Clear(sid) succeeded against a working store, the session it
\* returns is a pre-session (Data nil) that was stored, under an ID that
\* differs from sid; the session cookie carries the new ID; no record is in
\* the store under sid.
C13_ClearReplaces ==
    (ClearDone /\ req.err = Nil /\ WorkingStore
        /\ req.delErr \in {Nil, "ErrSessionNotFound"})
    => /\ req.s # NoSession
       /\ req.s.Data = Nil
       /\ req.s = req.stored
       /\ req.s.ID # req.sid
       /\ req.respCookie.value = req.s.ID
       /\ req.sid \notin DOMAIN items

\* C14: when Create fails inside Clear, Clear returns the error and no
\* session without a Store.Del call and with no session cookie written; no
\* step of such a Clear removes a record other than by the eviction pass of
\* the store, and none changes a record.
C14_FailedClearKeepsPrior ==
    [][/\ (req'.pc = "done" /\ req'.op = "clear" /\ req'.err # Nil)
          => /\ req'.delCalls = 0
             /\ req'.s = NoSession
             /\ req'.respCookie = NoCookie
             /\ req'.last \notin {Nil, "ok"}
       /\ (req'.op = "clear" /\ req'.delCalls = 1) => req'.last = "ok"
       /\ (req.op = "clear" /\ FailedAttemptStep)
          => /\ items' \in {items, evict(StoreOf(items, evictions), now).items}
             /\ (req.sid \in DOMAIN items'
                    /\ req.sid \in DOMAIN items)
                => items'[req.sid] = items[req.sid]]_vars

C14_Witness ==
    /\ ClearDone
    /\ req.err = "ErrExhausted"
    /\ req.delCalls = 0
    /\ req.prior # NoSession
    /\ req.sid \in DOMAIN items
    /\ items[req.sid] = req.prior

\* C15: once Clear has called Store.Del it returns the new pre-session and
\* no error, whatever Store.Del returned: nil, ErrSessionNotFound or the
\* error of a failing backend.
C15_DelFailureNotFatal ==
    (ClearDone /\ req.delCalls >= 1)
    => /\ req.delCalls = 1
       /\ req.delErr \in {Nil, "ErrSessionNotFound", "backend"}
       /\ req.err = Nil
       /\ req.s # NoSession
       /\ req.s.Data = Nil
       /\ req.s = req.stored
       /\ req.respCookie.value = req.s.ID

C15_Witness ==
    /\ ClearDone
    /\ req.delErr = "backend"
    /\ req.err = Nil
    /\ req.s # NoSession
    /\ req.sid \in DOMAIN items

----------------------------------------------------------------------------
(* Properties of the CSRF tokens and of the two token roles.               *)

\* A VerifySessionCSRFToken call has returned.
VerifyDone == req.pc = "done" /\ req.op = "verify"

\* The authentic CSRF tokens of the Manager.
AuthenticCSRF == {createCSRFToken(i) : i \in IDs}

\* The submitted token is the CSRF token of a stored session other than the
\* one it is checked against.
TokenOfOtherSession ==
    \E k \in DOMAIN items : k # req.s.ID /\ items[k].CSRFToken = req.token

C17_RolesSeparated ==
    /\ sta # cta
    /\ (VerifyDone /\ req.token \in {createSessionToken(i) : i \in IDs})
       => req.err = "ErrInvalidToken"
    /\ (req.op = "manage" /\ req.cookie \in AuthenticCSRF)
       => /\ req.cookieErr = "ErrInvalidToken"
          /\ req.got = NoSession
          /\ req.ctx.ID # req.cookie

C17_Witness ==
    /\ VerifyDone
    /\ req.token = req.s.ID
    /\ req.token = createSessionToken(1)
    /\ req.err = "ErrInvalidToken"

----------------------------------------------------------------------------
(* Properties of expiry.                                                   *)

\* The step is the middleware looking up a verified cookie, with Store.Get
\* working.
LookupStep ==
    /\ req.pc = "idle"
    /\ req'.op = "manage"
    /\ req'.cookieErr = Nil
    /\ req'.lookupErr \notin {"backend", "ErrInvalidStoredSessionData"}

\* What Store.Get finds: the records left by the eviction pass.
Found == evict(StoreOf(items, evictions), now).items

\* The request as the middleware leaves it when it goes on to Create after
\* the lookup of the cookie's session.
ToCreate(cookie) ==
    [idleReq EXCEPT !.op = "manage", !.cookie = cookie, !.getKeys = {cookie},
                    !.pc = "create", !.i = 1]

\* lookup returns the stored session exactly when Store.Get finds it and
\* its Expiration is not before now; a found session whose Expiration is
\* before now gives the expired-session error, and the middleware goes on
\* from it as it does from not-found.
LookupExact ==
    LookupStep
    => LET k == req'.cookie IN
       /\ req'.lookupErr = Nil
          <=> (k \in DOMAIN Found /\ ~Before(Found[k].Expiration, now))
       /\ req'.lookupErr = Nil
          => /\ req'.got = Found[k]
             /\ req'.handler
             /\ req'.ctx = Found[k]
       /\ (k \in DOMAIN Found /\ Before(Found[k].Expiration, now))
          => /\ req'.lookupErr = "errExpiredSession"
             /\ req' = [ToCreate(k) EXCEPT !.lookupErr = "errExpiredSession"]
       /\ k \notin DOMAIN Found
          => /\ req'.lookupErr = "ErrSessionNotFound"
             /\ req' = [ToCreate(k) EXCEPT !.lookupErr = "ErrSessionNotFound"]

\* The request of an expired session has been served.
ExpiredServed ==
    /\ req'.pc = "done"
    /\ req'.op = "manage"
    /\ req'.lookupErr = "errExpiredSession"
    /\ req'.handler

StoredStep ==
    req'.setCalls = req.setCalls + 1 /\ req'.last = "ok"

\* The step is Clear's Store.Del on key k.
DelStep(k) == req.pc = "del" /\ req.sid = k /\ req'.delCalls = req.delCalls + 1

\* C19: the eviction entry pushed with a session created by Create expires
\* at the Set time plus TTL plus the storage grace period, strictly later
\* than the session's Expiration; and no step removes from the store, other
\* than by Store.Del on its key, a session whose Expiration is not before
\* the clock's time.
C19_NoEvictionBeforeExpiry ==
    [][/\ StoredStep
          => \E n \in 1..Len(evictions') :
                /\ evictions'[n].key = req'.s.ID
                /\ evictions'[n].expires = now + TTL + sessionStorageGracePeriod
                /\ Before(req'.s.Expiration, evictions'[n].expires)
       /\ \A k \in DOMAIN items \ DOMAIN items' :
             DelStep(k) \/ Before(items[k].Expiration, now)]_vars

----------------------------------------------------------------------------
(* internal/token at the level of the token string.  A string is the       *)
(* sequence of its character codes.  The Manager above uses tokens through *)
(* v0Create and v0Verify, which keep of a token its header, payload and    *)
(* MAC; here the token is the text that Create formats and Verify parses.  *)
(* HMAC-SHA256 is modelled by a keyed weighted sum over the message, of    *)
(* MacLen bytes: the MAC of a message changes with any single bit of it.   *)

\* Length of a MAC in bytes (sha256.Size in the source, 32, which like 2
\* leaves a last base64 character with unused low bits and one pad).
MacLen == 2
\* Longest payload passed to Create.
MaxPayloadLen == 2

\* The byte values payloads are made of, and the keys.
PayloadBytes == {0, 104, 255}
TokenKeys == {11, 4242}

\* "v0", "!", "." and "=" as character codes
VersionChars == <<118, 48>>
VersionHeaderSeparator == 33
macFooterSeparator == 46
padChar == 61

\* encoding/base64 URLEncoding: the character of a 6-bit value
encodeURL(v) ==
    IF v < 26 THEN 65 + v
    ELSE IF v < 52 THEN 97 + (v - 26)
    ELSE IF v < 62 THEN 48 + (v - 52)
    ELSE IF v = 62 THEN 45
    ELSE 95

\* encoding/base64 URLEncoding: the 6-bit value of a character, or -1
decodeURL(c) ==
    IF c >= 65 /\ c <= 90 THEN c - 65
    ELSE IF c >= 97 /\ c <= 122 THEN c - 97 + 26
    ELSE IF c >= 48 /\ c <= 57 THEN c - 48 + 52
    ELSE IF c = 45 THEN 62
    ELSE IF c = 95 THEN 63
    ELSE -1

\* base64.URLEncoding.EncodeToString
RECURSIVE EncodeToString(_)
EncodeToString(b) ==
    IF Len(b) = 0 THEN << >>
    ELSE IF Len(b) = 1
    THEN <<encodeURL(b[1] \div 4), encodeURL((b[1] % 4) * 16), padChar, padChar>>
    ELSE IF Len(b) = 2
    THEN <<encodeURL(b[1] \div 4),
           encodeURL((b[1] % 4) * 16 + b[2] \div 16),
           encodeURL((b[2] % 16) * 4), padChar>>
    ELSE <<encodeURL(b[1] \div 4),
           encodeURL((b[1] % 4) * 16 + b[2] \div 16),
           encodeURL((b[2] % 16) * 4 + b[3] \div 64),
           encodeURL(b[3] % 64)>>
         \o EncodeToString(SubSeq(b, 4, Len(b)))

\* base64.URLEncoding.DecodeString (padded, not strict: the unused low bits
\* of the last character are not looked at): the bytes, and whether the
\* string decodes.
RECURSIVE DecodeString(_)
DecodeString(s) ==
    IF Len(s) = 0 THEN [data |-> << >>, ok |-> TRUE]
    ELSE IF Len(s) < 4 THEN [data |-> << >>, ok |-> FALSE]
    ELSE LET v1 == decodeURL(s[1])
             v2 == decodeURL(s[2])
             v3 == decodeURL(s[3])
             v4 == decodeURL(s[4])
             bad == [data |-> << >>, ok |-> FALSE]
         IN IF v1 < 0 \/ v2 < 0 THEN bad
            ELSE IF s[3] = padChar
            THEN IF s[4] = padChar /\ Len(s) = 4
                 THEN [data |-> <<v1 * 4 + v2 \div 16>>, ok |-> TRUE]
                 ELSE bad
            ELSE IF v3 < 0 THEN bad
            ELSE IF s[4] = padChar
            THEN IF Len(s) = 4
                 THEN [data |-> <<v1 * 4 + v2 \div 16, (v2 % 16) * 16 + v3 \div 4>>,
                       ok |-> TRUE]
                 ELSE bad
            ELSE IF v4 < 0 THEN bad
            ELSE LET rest == DecodeString(SubSeq(s, 5, Len(s)))
                 IN IF ~rest.ok THEN bad
                    ELSE [data |-> <<v1 * 4 + v2 \div 16,
                                     (v2 % 16) * 16 + v3 \div 4,
                                     (v3 % 4) * 64 + v4>> \o rest.data,
                          ok |-> TRUE]

\* Length of a base64-encoded MAC.
base64MACLen == 4 * ((MacLen + 2) \div 3)

\* The weighted sum of the characters of a message
RECURSIVE weightedSum(_, _)
weightedSum(msg, n) ==
    IF n = 0 THEN 0 ELSE (2 * n + 1) * msg[n] + weightedSum(msg, n - 1)

\* The big-endian bytes of a number
RECURSIVE toBytes(_, _)
toBytes(x, len) ==
    IF len = 0 THEN << >> ELSE toBytes(x \div 256, len - 1) \o <<x % 256>>

\* hmac.New(sha256.New, key); h.Write(msg); h.Sum(nil)
hmacSum(key, msg) ==
    toBytes((key + weightedSum(msg, Len(msg))) % (256 ^ MacLen), MacLen)

\* v0.Create
Create(key, data) ==
    LET msg == VersionChars \o <<VersionHeaderSeparator>> \o EncodeToString(data)
    IN msg \o <<macFooterSeparator>> \o EncodeToString(hmacSum(key, msg))

\* The positions of a character in a string
indices(s, sub) == {n \in 1..Len(s) : s[n] = sub}

\* strings.Index, 1-based (0 when the character is not in the string)
Index(s, sub) ==
    IF indices(s, sub) = {} THEN 0
    ELSE CHOOSE n \in indices(s, sub) : \A m \in indices(s, sub) : n <= m

\* v0.uniqueIndex
uniqueIndex(s, sub) ==
    LET i == Index(s, sub) IN
    IF i = 0 THEN [i |-> i, err |-> "errNotFound"]
    ELSE IF \E m \in indices(s, sub) : m > i THEN [i |-> i, err |-> "errNotUnique"]
    ELSE [i |-> i, err |-> Nil]

\* The result of Verify: the payload bytes and the error
verified(data) == [data |-> data, err |-> Nil]
failed(err) == [data |-> << >>, err |-> err]

\* Verify that hands back the payload segment as it stands in the token
VerifyNoDecode(key, token) ==
    LET v == uniqueIndex(token, VersionHeaderSeparator)
        m == uniqueIndex(token, macFooterSeparator)
    IN IF v.err # Nil THEN failed("ErrBadToken")
       ELSE IF SubSeq(token, 1, v.i - 1) # VersionChars
       THEN failed("ErrUnsupportedVersion")
       ELSE IF m.err # Nil THEN failed("ErrBadToken")
       ELSE IF Len(token) - m.i # base64MACLen THEN failed("ErrBadToken")
       ELSE LET mac == DecodeString(SubSeq(token, m.i + 1, Len(token)))
            IN IF ~mac.ok THEN failed("ErrBadToken")
               ELSE IF hmacSum(key, SubSeq(token, 1, m.i - 1)) # mac.data
               THEN failed("ErrInvalidToken")
               ELSE verified(SubSeq(token, v.i + 1, m.i - 1))

\* Verify that does not look at the version
VerifyAnyVersion(key, token) ==
    LET v == uniqueIndex(token, VersionHeaderSeparator)
        m == uniqueIndex(token, macFooterSeparator)
    IN IF v.err # Nil THEN failed("ErrBadToken")
       ELSE IF m.err # Nil THEN failed("ErrBadToken")
       ELSE IF Len(token) - m.i # base64MACLen THEN failed("ErrBadToken")
       ELSE LET mac == DecodeString(SubSeq(token, m.i + 1, Len(token)))
            IN IF ~mac.ok THEN failed("ErrBadToken")
               ELSE IF hmacSum(key, SubSeq(token, 1, m.i - 1)) # mac.data
               THEN failed("ErrInvalidToken")
               ELSE LET data == DecodeString(SubSeq(token, v.i + 1, m.i - 1))
                    IN IF ~data.ok THEN failed("ErrBadToken")
                       ELSE verified(data.data)

\* v0.Verify
Verify(key, token) ==
    LET v == uniqueIndex(token, VersionHeaderSeparator)
        m == uniqueIndex(token, macFooterSeparator)
    IN IF v.err # Nil THEN failed("ErrBadToken")
       ELSE IF SubSeq(token, 1, v.i - 1) # VersionChars
       THEN failed("ErrUnsupportedVersion")
       ELSE IF m.err # Nil THEN failed("ErrBadToken")
       ELSE IF Len(token) - m.i # base64MACLen THEN failed("ErrBadToken")
       ELSE LET mac == DecodeString(SubSeq(token, m.i + 1, Len(token)))
            IN IF ~mac.ok THEN failed("ErrBadToken")
               ELSE IF hmacSum(key, SubSeq(token, 1, m.i - 1)) # mac.data
               THEN failed("ErrInvalidToken")
               ELSE LET data == DecodeString(SubSeq(token, v.i + 1, m.i - 1))
                    IN IF ~data.ok THEN failed("ErrBadToken")
                       ELSE verified(data.data)

\* v0Header
v0Header == VersionChars \o <<VersionHeaderSeparator>>

\* strings.HasPrefix
HasPrefix(s, prefix) ==
    Len(s) >= Len(prefix) /\ SubSeq(s, 1, Len(prefix)) = prefix

\* Authenticator.Create on the token string
AuthenticatorCreate(key, data) == Create(key, data)

\* Authenticator.Verify on the token string
AuthenticatorVerify(key, token) ==
    IF HasPrefix(token, v0Header) THEN Verify(key, token)
    ELSE failed("ErrUnsupportedVersion")

\* C21: after Set, Del and a second Set on a key, all successful, a Get on
\* the key made before the clock passes the second Set's time plus its ttl,
\* with no Del on the key since, returns the value of the second Set.
C21_StaleEntryHarmless ==
    [][(/\ req'.seq # req.seq
        /\ req'.op = "Get"
        /\ callers[req'.sid].set
        /\ callers[req'.sid].deleted
        /\ callers[req'.sid].live
        /\ ~Expired(req'.sid))
       => /\ req'.err = Nil
          /\ req'.s = callers[req'.sid].v]_vars

----------------------------------------------------------------------------
(* Tokens made with Authenticator.Create, altered the ways a client or an  *)
(* attacker can alter a string, and handed to Authenticator.Verify and to  *)
(* v0.Verify with the key they were made under.  req is the token at hand: *)
(* its key and payload, the string, how it was made (kind) and the two     *)
(* results.                                                                *)

Payloads == UNION {[1..n -> PayloadBytes] : n \in 0..MaxPayloadLen}

\* Version prefixes other than "v0": "v42", "v1", "V0" and the empty one.
OtherVersions == {<<118, 52, 50>>, <<118, 49>>, <<86, 48>>, << >>}

\* A character outside the base64 alphabet that is no separator: "*".
badChar == 42

noToken ==
    [pc |-> "idle", key |-> 0, data |-> << >>, token |-> << >>, kind |-> Nil,
     res |-> failed(Nil), resV0 |-> failed(Nil)]

\* c with bit b flipped
flipBit(c, b) == IF (c \div (2 ^ b)) % 2 = 1 THEN c - 2 ^ b ELSE c + 2 ^ b

\* The positions of the payload segment and of the MAC segment in a token
\* that Create made.
payloadSegment(token) ==
    {n \in 1..Len(token) :
        Index(token, VersionHeaderSeparator) < n /\ n < Index(token, macFooterSeparator)}
macSegment(token) ==
    {n \in 1..Len(token) : n > Index(token, macFooterSeparator)}

InitToken ==
    /\ now = 0
    /\ items = [x \in {} |-> NoSession]
    /\ evictions = << >>
    /\ req = noToken
    /\ mu = 0
    /\ callers = << >>

\* Authenticator.Create(data) under key k
TokenCreate(k, data) ==
    /\ req.pc = "idle"
    /\ req' = [noToken EXCEPT !.pc = "made", !.key = k, !.data = data,
                              !.token = AuthenticatorCreate(k, data),
                              !.kind = "created"]
    /\ UNCHANGED <<now, items, evictions, mu, callers>>

\* One bit of a character of the payload segment or of the MAC segment is
\* flipped.
TokenFlip(n, b) ==
    /\ req.pc = "made"
    /\ req.kind = "created"
    /\ n \in payloadSegment(req.token) \cup macSegment(req.token)
    /\ req' = [req EXCEPT !.token[n] = flipBit(@, b),
                          !.kind = IF n \in payloadSegment(req.token)
                                   THEN "flipPayload" ELSE "flipMAC"]
    /\ UNCHANGED <<now, items, evictions, mu, callers>>

\* The version prefix is replaced by another; the rest of the token stays.
TokenVersion(ver) ==
    /\ req.pc = "made"
    /\ req.kind = "created"
    /\ req' = [req EXCEPT
                 !.token = ver \o SubSeq(@, Len(VersionChars) + 1, Len(@)),
                 !.kind = "version"]
    /\ UNCHANGED <<now, items, evictions, mu, callers>>

\* The version separator is taken out, with the version prefix or without.
TokenNoSeparator(keepVersion) ==
    /\ req.pc = "made"
    /\ req.kind = "created"
    /\ req' = [req EXCEPT
                 !.token = (IF keepVersion THEN VersionChars ELSE << >>)
                           \o SubSeq(@, Len(v0Header) + 1, Len(@)),
                 !.kind = "noSeparator"]
    /\ UNCHANGED <<now, items, evictions, mu, callers>>

\* A second version header is put in front of the token.
TokenDupSeparator(ver) ==
    /\ req.pc = "made"
    /\ req.kind = "created"
    /\ req' = [req EXCEPT
                 !.token = ver \o <<VersionHeaderSeparator>> \o @,
                 !.kind = "dupSeparator"]
    /\ UNCHANGED <<now, items, evictions, mu, callers>>

\* A character of the payload segment or of the MAC segment is replaced by
\* one that is not base64; remac: the MAC segment is then made anew over the
\* altered message (possible for the payload segment only).
TokenBadChar(n, remac) ==
    /\ req.pc = "made"
    /\ req.kind = "created"
    /\ n \in payloadSegment(req.token) \cup macSegment(req.token)
    /\ remac => n \in payloadSegment(req.token)
    /\ LET t == [req.token EXCEPT ![n] = badChar]
           msg == SubSeq(t, 1, Index(t, macFooterSeparator) - 1)
       IN req' = [req EXCEPT
                    !.token = IF remac
                              THEN msg \o <<macFooterSeparator>>
                                       \o EncodeToString(hmacSum(req.key, msg))
                              ELSE t,
                    !.kind = IF n \in payloadSegment(req.token)
                             THEN "badPayload" ELSE "badMAC"]
    /\ UNCHANGED <<now, items, evictions, mu, callers>>

\* Authenticator.Verify(token), and v0.Verify(key, token)
TokenVerify ==
    /\ req.pc = "made"
    /\ req' = [req EXCEPT !.pc = "verified",
                          !.res = AuthenticatorVerify(req.key, req.token),
                          !.resV0 = Verify(req.key, req.token)]
    /\ UNCHANGED <<now, items, evictions, mu, callers>>

TokenDone ==
    /\ req.pc = "verified"
    /\ req' = noToken
    /\ UNCHANGED <<now, items, evictions, mu, callers>>

NextToken ==
    \/ \E k \in TokenKeys, d \in Payloads : TokenCreate(k, d)
    \/ \E n \in 1..(Len(v0Header) + 4 * ((MaxPayloadLen + 2) \div 3) + 1 + base64MACLen),
          b \in 0..7 : TokenFlip(n, b)
    \/ \E v \in OtherVersions : TokenVersion(v)
    \/ \E kv \in BOOLEAN : TokenNoSeparator(kv)
    \/ \E v \in {VersionChars, <<118, 49>>} : TokenDupSeparator(v)
    \/ \E n \in 1..(Len(v0Header) + 4 * ((MaxPayloadLen + 2) \div 3) + 1 + base64MACLen),
          r \in BOOLEAN : TokenBadChar(n, r)
    \/ TokenVerify
    \/ TokenDone

SpecToken == InitToken /\ [][NextToken]_vars

\* A token has been verified.
Verified == req.pc = "verified"

\* C22: a token that Authenticator.Create made of a payload under a key is
\* verified under that key, by Authenticator.Verify and by v0.Verify, with
\* no error and with exactly that payload, the empty payload included.
C22_RoundTrip ==
    (Verified /\ req.kind = "created")
    => /\ req.res = verified(req.data)
       /\ req.resV0 = verified(req.data)

C22_Witness ==
    /\ Verified
    /\ req.kind = "created"
    /\ req.data = <<255, 104>>
    /\ req.res.err = Nil
    /\ req.res.data = <<255, 104>>

\* C23: a token with a single version separator whose version prefix is not
\* "v0" fails with ErrUnsupportedVersion, in Authenticator.Verify and in
\* v0.Verify, although the rest of it is the payload and the MAC segment of
\* a v0 token.
C23_VersionIsolation ==
    (Verified /\ req.kind = "version")
    => /\ Cardinality(indices(req.token, VersionHeaderSeparator)) = 1
       /\ req.res = failed("ErrUnsupportedVersion")
       /\ req.resV0 = failed("ErrUnsupportedVersion")

C23_Witness ==
    /\ Verified
    /\ req.kind = "version"
    /\ SubSeq(req.token, 1, 4) = <<118, 52, 50, 33>>
    /\ req.res.err = "ErrUnsupportedVersion"

\* C24: a token made by Create in which one bit of the payload segment or
\* of the MAC segment was flipped fails with ErrInvalidToken.
C24_TamperSensitivity ==
    (Verified /\ req.kind \in {"flipPayload", "flipMAC"})
    => /\ req.res.err = "ErrInvalidToken"
       /\ req.resV0.err = "ErrInvalidToken"

\* C25: Authenticator.Verify fails with ErrBadToken on every token in which
\* the version separator is absent or occurs more than once.
C25_SeparatorStructural ==
    (Verified /\ Cardinality(indices(req.token, VersionHeaderSeparator)) # 1)
    => req.res.err = "ErrBadToken"

\* The token has the v0 header, one MAC separator and a MAC segment of the
\* expected length.
WellPlaced ==
    /\ uniqueIndex(req.token, VersionHeaderSeparator).err = Nil
    /\ HasPrefix(req.token, v0Header)
    /\ uniqueIndex(req.token, macFooterSeparator).err = Nil
    /\ Len(req.token) - Index(req.token, macFooterSeparator) = base64MACLen

\* Both segments of the token decode.
BothDecode ==
    /\ DecodeString(SubSeq(req.token, Len(v0Header) + 1,
                           Index(req.token, macFooterSeparator) - 1)).ok
    /\ DecodeString(SubSeq(req.token, Index(req.token, macFooterSeparator) + 1,
                           Len(req.token))).ok

\* C26: on a v0 token with well placed separators and a MAC segment of the
\* expected length, a segment that does not decode gives ErrBadToken, and
\* ErrInvalidToken is returned only when both segments decode.
C26_DecodeBeforeMAC ==
    (Verified /\ WellPlaced)
    => /\ ~BothDecode => req.resV0.err = "ErrBadToken"
       /\ req.resV0.err = "ErrInvalidToken" => BothDecode

----------------------------------------------------------------------------
(* retry.Backoff.Do on its own: any policy, any attempt budget, and a work *)
(* function that in each attempt calls Done, Abort, both or neither.       *)
(* Growth and Jitter are in tenths; durations are whole numbers of the     *)
(* unit scale truncates to.  req is the call of Do: its locals (i, d,      *)
(* done, aborted) and what happened in it (the number of calls of fn and   *)
(* of sleep, the latest delay slept and the running delay it was drawn     *)
(* from, what fn did last, the attempts in which Done and Abort were       *)
(* called).                                                                *)

MaxAttempts == 4

\* Base of the policies: 1000 stands for the 100ms of the tests and of
\* Manager.Create (a unit of 100 microseconds, in which the delays of these
\* policies are whole as they are in nanoseconds), 3 for a Base of a few
\* units, where the truncation of scale shows.
Bases == {3, 1000}

Growths == {9, 10, 12}
Jitters == {0 - 1, 0, 1, 10, 15}

\* rand.Float64(), in tenths: a value in [0, 1)
Floats == {0, 5, 9}

\* What fn does with its RetryContext in one attempt
Outcomes == {"none", "done", "abort", "doneAbort", "abortDone"}

\* The outcomes in which fn calls rctx.Done, and those in which it calls
\* rctx.Abort
callsDone == {"done", "doneAbort", "abortDone"}
callsAbort == {"abort", "doneAbort", "abortDone"}

\* validate that accepts every Jitter that is not negative
validateNoUpper(b) ==
    IF b.Growth < 10 THEN "ErrInvalidPolicyParam"
    ELSE IF b.Jitter < 0 THEN "ErrInvalidPolicyParam"
    ELSE Nil

\* Backoff.validate
validate(b) ==
    IF b.Growth < 10 THEN "ErrInvalidPolicyParam"
    ELSE IF b.Jitter < 0 THEN "ErrInvalidPolicyParam"
    ELSE IF b.Jitter > 10 THEN "ErrInvalidPolicyParam"
    ELSE Nil

\* scale: d times num / den, truncated
scale(d, num, den) == (d * num) \div den

noDo ==
    [pc |-> "idle", b |-> [Base |-> 0, Growth |-> 10, Jitter |-> 0], n |-> 0,
     i |-> 0, d |-> 0, done |-> FALSE, aborted |-> FALSE, calls |-> 0,
     sleeps |-> 0, delay |-> 0, nominal |-> 0, out |-> Nil, err |-> Nil,
     doneAt |-> 0, abortAt |-> 0]

InitRetry ==
    /\ now = 0
    /\ items = [x \in {} |-> NoSession]
    /\ evictions = << >>
    /\ req = noDo
    /\ mu = 0
    /\ callers = << >>

\* Backoff.Do(fn, n) up to the loop: validate, then d := Base and i := 1; a
\* budget below 1 leaves the loop at once.
BackoffDo(base, g, j, n) ==
    /\ req.pc = "idle"
    /\ LET b == [Base |-> base, Growth |-> g, Jitter |-> j]
           e == validate(b)
       IN req' = [noDo EXCEPT
                    !.b = b, !.n = n,
                    !.pc = IF e = Nil /\ 1 <= n THEN "call" ELSE "returned",
                    !.i = IF e = Nil THEN 1 ELSE 0,
                    !.d = IF e = Nil THEN b.Base ELSE 0,
                    !.err = IF e # Nil THEN e ELSE
                            IF 1 <= n THEN Nil ELSE "ErrExhausted"]
    /\ UNCHANGED <<now, items, evictions, mu, callers>>

\* A pass of the loop that sleeps after the last attempt of the budget too
BackoffAttemptSleepLast(out, r) ==
    /\ req.pc = "call"
    /\ LET done == req.done \/ out \in callsDone
           aborted == req.aborted \/ out \in callsAbort
           next == DoAfter(req.i, req.n, done, aborted)
           called == [req EXCEPT
                        !.calls = @ + 1, !.done = done, !.aborted = aborted,
                        !.out = out,
                        !.doneAt = IF out \in callsDone /\ @ = 0
                                   THEN req.i ELSE @,
                        !.abortAt = IF out \in callsAbort /\ @ = 0
                                    THEN req.i ELSE @]
       IN req' = IF next = "sleep"
                 THEN [called EXCEPT
                         !.sleeps = @ + 1,
                         !.nominal = req.d,
                         !.delay = scale(req.d,
                                         100 + req.b.Jitter * (2 * r - 10), 100),
                         !.d = scale(req.d, req.b.Growth, 10),
                         !.i = @ + 1]
                 ELSE [called EXCEPT
                         !.pc = "returned", !.err = next,
                         !.sleeps = IF next = "ErrExhausted" THEN @ + 1 ELSE @]
    /\ UNCHANGED <<now, items, evictions, mu, callers>>

\* A pass of the loop that carries the jittered delay on as the running
\* delay
BackoffAttemptCompound(out, r) ==
    /\ req.pc = "call"
    /\ LET done == req.done \/ out \in callsDone
           aborted == req.aborted \/ out \in callsAbort
           next == DoAfter(req.i, req.n, done, aborted)
           called == [req EXCEPT
                        !.calls = @ + 1, !.done = done, !.aborted = aborted,
                        !.out = out,
                        !.doneAt = IF out \in callsDone /\ @ = 0
                                   THEN req.i ELSE @,
                        !.abortAt = IF out \in callsAbort /\ @ = 0
                                    THEN req.i ELSE @]
       IN req' = IF next = "sleep"
                 THEN [called EXCEPT
                         !.sleeps = @ + 1,
                         !.nominal = req.d,
                         !.delay = scale(req.d,
                                         100 + req.b.Jitter * (2 * r - 10), 100),
                         !.d = scale(scale(req.d,
                                           100 + req.b.Jitter * (2 * r - 10), 100),
                                     req.b.Growth, 10),
                         !.i = @ + 1]
                 ELSE [called EXCEPT !.pc = "returned", !.err = next]
    /\ UNCHANGED <<now, items, evictions, mu, callers>>

\* One pass of the loop: fn is called and does out; Do returns, or sleeps
\* for the jittered delay (r is the random number), grows the delay and
\* goes to the next attempt.
BackoffAttempt(out, r) ==
    /\ req.pc = "call"
    /\ LET done == req.done \/ out \in callsDone
           aborted == req.aborted \/ out \in callsAbort
           next == DoAfter(req.i, req.n, done, aborted)
           called == [req EXCEPT
                        !.calls = @ + 1, !.done = done, !.aborted = aborted,
                        !.out = out,
                        !.doneAt = IF out \in callsDone /\ @ = 0
                                   THEN req.i ELSE @,
                        !.abortAt = IF out \in callsAbort /\ @ = 0
                                    THEN req.i ELSE @]
       IN req' = IF next = "sleep"
                 THEN [called EXCEPT
                         !.sleeps = @ + 1,
                         !.nominal = req.d,
                         !.delay = scale(req.d,
                                         100 + req.b.Jitter * (2 * r - 10), 100),
                         !.d = scale(req.d, req.b.Growth, 10),
                         !.i = @ + 1]
                 ELSE [called EXCEPT !.pc = "returned", !.err = next]
    /\ UNCHANGED <<now, items, evictions, mu, callers>>

\* The caller has the result of Do.
BackoffReturn ==
    /\ req.pc = "returned"
    /\ req' = noDo
    /\ UNCHANGED <<now, items, evictions, mu, callers>>

NextRetry ==
    \/ \E base \in Bases, g \in Growths, j \in Jitters, n \in 0..MaxAttempts :
          BackoffDo(base, g, j, n)
    \/ \E out \in Outcomes, r \in Floats : BackoffAttempt(out, r)
    \/ BackoffReturn

SpecRetry == InitRetry /\ [][NextRetry]_vars

\* Do was called with valid parameters and a budget of at least 1.
ValidDo == req.pc \in {"call", "returned"} /\ validate(req.b) = Nil /\ req.n >= 1

\* C27 as stated: with valid parameters and n >= 1, Do returns nil right
\* after the first attempt in which fn called Done, ErrAborted right after
\* the first attempt in which fn called Abort, and ErrExhausted after
\* exactly n attempts when neither was called; fn is called at most n times
\* and never after an attempt that called Done or Abort.
C27_Original ==
    ValidDo
    => /\ req.calls <= req.n
       /\ req.pc = "call" => (req.doneAt = 0 /\ req.abortAt = 0)
       /\ req.pc = "returned"
          => /\ req.doneAt # 0 => (req.err = Nil /\ req.calls = req.doneAt)
             /\ req.abortAt # 0
                => (req.err = "ErrAborted" /\ req.calls = req.abortAt)
             /\ (req.doneAt = 0 /\ req.abortAt = 0)
                => (req.err = "ErrExhausted" /\ req.calls = req.n)

\* C27, amended: as stated, except that an attempt in which fn called both
\* Done and Abort counts as one that called Done: Do returns nil after it,
\* and ErrAborted only after an attempt that called Abort and not Done.
C27_Amended ==
    ValidDo
    => /\ req.calls <= req.n
       /\ req.pc = "call" => (req.doneAt = 0 /\ req.abortAt = 0)
       /\ req.pc = "returned"
          => /\ req.doneAt # 0 => (req.err = Nil /\ req.calls = req.doneAt)
             /\ (req.abortAt # 0 /\ req.doneAt = 0)
                => (req.err = "ErrAborted" /\ req.calls = req.abortAt)
             /\ (req.doneAt = 0 /\ req.abortAt = 0)
                => (req.err = "ErrExhausted" /\ req.calls = req.n)

C27_Witness ==
    /\ ValidDo
    /\ req.pc = "returned"
    /\ req.n = 3
    /\ req.calls = 2
    /\ req.doneAt = 2
    /\ req.abortAt = 2
    /\ req.err = Nil

\* C28: Do with Growth below 1, Jitter below 0 or Jitter above 1 returns
\* ErrInvalidPolicyParam without a call of fn and without a sleep.
C28_InvalidPolicyParam ==
    (/\ req.pc = "returned"
     /\ (req.b.Growth < 10 \/ req.b.Jitter < 0 \/ req.b.Jitter > 10))
    => /\ req.err = "ErrInvalidPolicyParam"
       /\ req.err \notin {"ErrAborted", "ErrExhausted"}
       /\ req.calls = 0
       /\ req.sleeps = 0

C28_Witness ==
    /\ req.pc = "returned"
    /\ req.b = [Base |-> 1000, Growth |-> 12, Jitter |-> 15]
    /\ req.n = 3
    /\ req.err = "ErrInvalidPolicyParam"
    /\ req.calls = 0

----------------------------------------------------------------------------
(* The Redis-backed Store over a Redis server whose client calls can fail. *)
(* items is the server's keyspace, from the key to the stored string and   *)
(* the time it expires (0: never); a string is the JSON of a session, or   *)
(* something that is not JSON, or empty.  req is the latest call with its  *)
(* circumstances: whether the client call failed (fault), whether the key  *)
(* was missing, and the string the client returned (raw).                  *)

\* The error of a failed client call (e.g. the client is closed); Set wraps
\* it, Del returns it.
redisError == "redis: client is closed"

\* goredis.Nil, the client's error for a missing key
redisNil == "redis: nil"

emptyVal == [kind |-> "empty", s |-> valueOf(0)]
invalidVal == [kind |-> "invalid", s |-> valueOf(0)]

\* json.Marshal(s); ok is false for a type that cannot be marshalled
Marshal(s, ok) ==
    IF ok THEN [val |-> [kind |-> "json", s |-> s], err |-> Nil]
    ELSE [val |-> emptyVal, err |-> "json: unsupported type"]

\* json.Unmarshal(val, s)
Unmarshal(val) ==
    IF val.kind = "json" THEN [s |-> val.s, err |-> Nil]
    ELSE [s |-> valueOf(0), err |-> "json: syntax error"]

\* Store.sessionKey
sessionKey(sid) == <<"session", sid>>

\* The key holds a value that has not expired.
Present(db, t, key) ==
    key \in DOMAIN db /\ (db[key].expires = 0 \/ t < db[key].expires)

\* rc.Get(ctx, key).Result()
clientGet(db, t, key, fault) ==
    IF fault THEN [val |-> emptyVal, err |-> redisError]
    ELSE IF ~Present(db, t, key) THEN [val |-> emptyVal, err |-> redisNil]
    ELSE [val |-> db[key].val, err |-> Nil]

\* rc.SetNX(ctx, key, val, ttl).Result()
clientSetNX(db, t, key, val, ttl, fault) ==
    IF fault THEN [db |-> db, set |-> FALSE, err |-> redisError]
    ELSE IF Present(db, t, key) THEN [db |-> db, set |-> FALSE, err |-> Nil]
    ELSE [db |-> [k \in DOMAIN db \cup {key} |->
                    IF k = key THEN [val |-> val, expires |-> t + ttl]
                    ELSE db[k]],
          set |-> TRUE, err |-> Nil]

\* rc.Del(ctx, key)
clientDel(db, t, key, fault) ==
    IF fault THEN [db |-> db, val |-> 0, err |-> redisError]
    ELSE [db |-> [k \in DOMAIN db \ {key} |-> db[k]],
          val |-> IF Present(db, t, key) THEN 1 ELSE 0, err |-> Nil]

\* redis Store.Get
redisGet(db, t, sid, fault) ==
    LET r == clientGet(db, t, sessionKey(sid), fault)
        u == Unmarshal(r.val)
    IN IF r.err = redisNil
       THEN [s |-> valueOf(0), err |-> "ErrSessionNotFound"]
       ELSE IF u.err # Nil
       THEN [s |-> valueOf(0), err |-> "ErrInvalidStoredSessionData"]
       ELSE [s |-> u.s, err |-> Nil]

\* redis Store.Set
redisSet(db, t, sid, s, ttl, marshals, fault) ==
    LET m == Marshal(s, marshals)
        r == clientSetNX(db, t, sessionKey(sid), m.val, ttl, fault)
    IN IF m.err # Nil THEN [db |-> db, err |-> "ErrInvalidSessionData"]
       ELSE IF r.err # Nil THEN [db |-> r.db, err |-> r.err]
       ELSE IF ~r.set THEN [db |-> r.db, err |-> "ErrSessionExists"]
       ELSE [db |-> r.db, err |-> Nil]

\* redis Store.Del
redisDel(db, t, sid, fault) ==
    LET r == clientDel(db, t, sessionKey(sid), fault)
    IN IF r.err # Nil THEN [db |-> r.db, err |-> r.err]
       ELSE IF r.val # 1 THEN [db |-> r.db, err |-> "ErrSessionNotFound"]
       ELSE [db |-> r.db, err |-> Nil]

noRedisCall ==
    [op |-> Nil, sid |-> NoToken, fault |-> FALSE, missing |-> FALSE,
     raw |-> emptyVal, s |-> valueOf(0), err |-> Nil, seq |-> 0]

InitRedis ==
    /\ now = 0
    /\ items = [x \in {} |-> [val |-> emptyVal, expires |-> 0]]
    /\ evictions = << >>
    /\ req = noRedisCall
    /\ mu = 0
    /\ callers = << >>

\* Store.Get(sid)
RedisGet(sid, fault) ==
    /\ LET r == redisGet(items, now, sid, fault)
       IN req' = [op |-> "Get", sid |-> sid, fault |-> fault,
                  missing |-> ~Present(items, now, sessionKey(sid)),
                  raw |-> clientGet(items, now, sessionKey(sid), fault).val,
                  s |-> r.s, err |-> r.err, seq |-> 1 - req.seq]
    /\ UNCHANGED <<now, items, evictions, mu, callers>>

\* Store.Set(sid, s, ttl)
RedisSet(sid, v, ttl, marshals, fault) ==
    /\ LET r == redisSet(items, now, sid, valueOf(v), ttl, marshals, fault)
       IN /\ items' = r.db
          /\ req' = [op |-> "Set", sid |-> sid, fault |-> marshals /\ fault,
                     missing |-> ~Present(items, now, sessionKey(sid)),
                     raw |-> emptyVal, s |-> valueOf(v), err |-> r.err,
                     seq |-> 1 - req.seq]
    /\ UNCHANGED <<now, evictions, mu, callers>>

\* Store.Del(sid)
RedisDel(sid, fault) ==
    /\ LET r == redisDel(items, now, sid, fault)
       IN /\ items' = r.db
          /\ req' = [op |-> "Del", sid |-> sid, fault |-> fault,
                     missing |-> ~Present(items, now, sessionKey(sid)),
                     raw |-> emptyVal, s |-> valueOf(0), err |-> r.err,
                     seq |-> 1 - req.seq]
    /\ UNCHANGED <<now, evictions, mu, callers>>

\* Another client of the server stores a string that is not JSON under the
\* key, with no expiry.
RedisRawSet(sid) ==
    /\ items' = [k \in DOMAIN items \cup {sessionKey(sid)} |->
                   IF k = sessionKey(sid)
                   THEN [val |-> invalidVal, expires |-> 0]
                   ELSE items[k]]
    /\ UNCHANGED <<now, evictions, req, mu, callers>>

NextRedis ==
    \/ Tick
    \/ \E k \in Keys, f \in BOOLEAN : RedisGet(k, f)
    \/ \E k \in Keys, v \in 1..NumValues, ttl \in 1..MaxTTL,
          m \in BOOLEAN, f \in BOOLEAN : RedisSet(k, v, ttl, m, f)
    \/ \E k \in Keys, f \in BOOLEAN : RedisDel(k, f)
    \/ \E k \in Keys : RedisRawSet(k)

SpecRedis == InitRedis /\ [][NextRedis]_vars

\* C29: a call of Get, Set or Del whose client call fails for a reason
\* other than a missing key returns the client's error, which is none of
\* ErrSessionNotFound, ErrSessionExists and ErrInvalidStoredSessionData;
\* ErrInvalidStoredSessionData is returned only by a Get that read a stored
\* value that does not parse, and ErrSessionNotFound only for a missing key.
C29_ErrorsByKind ==
    req.op # Nil
    => /\ req.fault
          => /\ req.err = redisError
             /\ req.err \notin {"ErrSessionNotFound", "ErrSessionExists",
                                "ErrInvalidStoredSessionData"}
       /\ req.err = "ErrInvalidStoredSessionData"
          => (req.op = "Get" /\ ~req.fault /\ ~req.missing
              /\ req.raw.kind = "invalid")
       /\ req.err = "ErrSessionNotFound" => (~req.fault /\ req.missing)

----------------------------------------------------------------------------
(* Concurrent calls of Manager.Create on one Manager and one Store whose   *)
(* Set is atomic: each caller runs the retry loop of Create, one Store.Set *)
(* per step, and the steps of the callers interleave in any order while    *)
(* the clock runs.  callers[c] is the Create call of caller c: its locals  *)
(* (i, s, err) and what happened in it (the number of Store.Set calls, of  *)
(* those that succeeded and of those that returned ErrSessionExists, and   *)
(* the time of the successful one).                                        *)

idleCreator ==
    [pc |-> "idle", i |-> 0, s |-> NoSession, err |-> Nil, setCalls |-> 0,
     setOK |-> 0, nExists |-> 0, t |-> 0]

InitConc ==
    /\ now = 0
    /\ items = [x \in {} |-> NoSession]
    /\ evictions = << >>
    /\ req = idleReq
    /\ mu = 0
    /\ callers = [c \in Callers |-> idleCreator]

\* Caller c calls Manager.Create; its data is c.
ConcCreate(c) ==
    /\ callers[c].pc = "idle"
    /\ callers' = [callers EXCEPT ![c] = [idleCreator EXCEPT !.pc = "create",
                                                             !.i = 1]]
    /\ UNCHANGED <<now, items, evictions, req, mu>>

\* One attempt of caller c: the work function draws the identifiers, builds
\* the session and calls Store.Set; Backoff.Do returns or goes to sleep, and
\* Create returns the session or the error.
ConcAttempt(c, idr, csrfr, fault) ==
    /\ callers[c].pc = "create"
    /\ LET id == createSessionToken(idr)
           snew == Session(id, c, now + TTL, createCSRFToken(csrfr))
           st == storeSet(StoreOf(items, evictions), now, id, snew,
                          TTL + sessionStorageGracePeriod, fault)
           w == workResult(st.err)
           next == DoAfter(callers[c].i, createAttempts, w.done, w.aborted)
       IN /\ items' = st.ms.items
          /\ evictions' = st.ms.evictions
          /\ callers' = [callers EXCEPT ![c] =
               [@ EXCEPT
                  !.setCalls = @ + 1,
                  !.setOK = IF st.err = Nil THEN @ + 1 ELSE @,
                  !.nExists = IF st.err = "ErrSessionExists" THEN @ + 1 ELSE @,
                  !.t = IF st.err = Nil THEN now ELSE @,
                  !.s = IF w.done THEN snew ELSE @,
                  !.pc = IF next = "sleep" THEN "sleep" ELSE "done",
                  !.err = IF next \in {"sleep", Nil} THEN Nil
                          ELSE "failed to create session"]]
    /\ UNCHANGED <<now, req, mu>>

\* Backoff.Do of caller c sleeps between two attempts.
ConcSleep(c) ==
    /\ callers[c].pc = "sleep"
    /\ callers' = [callers EXCEPT ![c].pc = "create", ![c].i = @ + 1]
    /\ UNCHANGED <<now, items, evictions, req, mu>>

\* Caller c has the result of Create.
ConcReturn(c) ==
    /\ callers[c].pc = "done"
    /\ callers' = [callers EXCEPT ![c] = idleCreator]
    /\ UNCHANGED <<now, items, evictions, req, mu>>

NextConc ==
    \/ Tick
    \/ \E c \in Callers : ConcCreate(c)
    \/ \E c \in Callers, idr \in IDs, fault \in {Nil, "backend"} :
          ConcAttempt(c, idr, 1, fault)
    \/ \E c \in Callers : ConcSleep(c)
    \/ \E c \in Callers : ConcReturn(c)

SpecConc == InitConc /\ [][NextConc]_vars

\* Caller c's Create has returned a session.
Created(c) == callers[c].pc = "done" /\ callers[c].err = Nil

\* Every Create that returned did so after exactly one successful Set when
\* it returned a session, and after none when it failed.
OneSetPerCreate ==
    \A c \in Callers :
        callers[c].pc = "done"
        => callers[c].setOK = (IF callers[c].err = Nil THEN 1 ELSE 0)

\* No record that is in the store and that the eviction pass at the time of
\* the step leaves there is replaced in the step.
NoOverwriteStep ==
    \A k \in DOMAIN items \cap DOMAIN evict(StoreOf(items, evictions), now).items :
        k \in DOMAIN items' => items'[k] = items[k]

----------------------------------------------------------------------------
(* The eviction queue of package memory on its own: entries are pushed in  *)
(* any order, popped and peeked at.  evictions is the queue; req is the    *)
(* latest call with the entry it returned.                                 *)

MaxHeap == 4
MaxExpiry == 4

QueueKeys == {"a", "b"}

noItem == [expires |-> 0, key |-> ""]

noQueueCall == [op |-> Nil, item |-> noItem, seq |-> 0]

\* newEvictionQueue
InitQueue ==
    /\ now = 0
    /\ items = [x \in {} |-> NoSession]
    /\ evictions = << >>
    /\ req = noQueueCall
    /\ mu = 0
    /\ callers = << >>

\* eq.Push(key, expires)
QueuePush(key, expires) ==
    /\ Len(evictions) < MaxHeap
    /\ evictions' = Push(evictions, key, expires)
    /\ req' = [op |-> "Push", item |-> noItem, seq |-> 1 - req.seq]
    /\ UNCHANGED <<now, items, mu, callers>>

\* eq.Pop() on a queue that is not empty
QueuePop ==
    /\ Len(evictions) > 0
    /\ LET p == Pop(evictions)
       IN /\ evictions' = p.queue
          /\ req' = [op |-> "Pop", item |-> p.item, seq |-> 1 - req.seq]
    /\ UNCHANGED <<now, items, mu, callers>>

\* eq.Peek() on a queue that is not empty
QueuePeek ==
    /\ Len(evictions) > 0
    /\ req' = [op |-> "Peek", item |-> Peek(evictions), seq |-> 1 - req.seq]
    /\ UNCHANGED <<now, items, evictions, mu, callers>>

NextQueue ==
    \/ \E k \in QueueKeys, e \in 1..MaxExpiry : QueuePush(k, e)
    \/ QueuePop
    \/ QueuePeek

SpecQueue == InitQueue /\ [][NextQueue]_vars

\* The entries of queue q, as the set of its positions' contents with the
\* number of times each occurs.
Count(q, e) == Cardinality({n \in 1..Len(q) : q[n] = e})

\* e has the minimum expiry of the entries of q.
IsMin(q, e) ==
    /\ \E n \in 1..Len(q) : q[n] = e
    /\ \A n \in 1..Len(q) : ~Before(q[n].expires, e.expires)

\* C31: Pop returns an entry with the minimum expiry of the queue and takes
\* exactly that entry out, so that successive Pops return the entries in
\* ascending order of expiry whatever the order they were pushed in; Peek
\* returns the entry with the minimum expiry and leaves the queue as it is;
\* and after every Push and Pop that leaves the queue non-empty the entry
\* at the head, which Peek returns, has the minimum expiry.
C31_MinQueue ==
    [][/\ req'.seq # req.seq
       /\ (req'.op = "Pop"
           => /\ IsMin(evictions, req'.item)
              /\ Len(evictions') = Len(evictions) - 1
              /\ \A n \in 1..Len(evictions) :
                    Count(evictions', evictions[n]) =
                       Count(evictions, evictions[n])
                          - (IF evictions[n] = req'.item THEN 1 ELSE 0))
       /\ (req'.op = "Peek"
           => IsMin(evictions, req'.item) /\ evictions' = evictions)
       /\ (req'.op = "Push" => Len(evictions') = Len(evictions) + 1)
       /\ (Len(evictions') > 0 => IsMin(evictions', Peek(evictions')))]_vars

\* Pop has returned the minimum of four entries, and the three that are
\* left are not in ascending order in the queue's slice.
C31_Witness ==
    /\ req.op = "Pop"
    /\ Len(evictions) = 3
    /\ Before(req.item.expires, Peek(evictions).expires)
    /\ Before(evictions[3].expires, evictions[2].expires)

----------------------------------------------------------------------------
(* The legacy MemoryStore of package store, used directly.  Its eviction   *)
(* queue is the same heap with its own Peek; the state and the record of   *)
(* each key's latest successful Set are those of the Store above.          *)

\* evictionQueue.Peek of package store
legacyPeek(q) == q[Len(q)]

\* MemoryStore.evict
RECURSIVE legacyEvict(_, _)
legacyEvict(ms, t) ==
    IF Len(ms.evictions) > 0 /\ Before(legacyPeek(ms.evictions).expires, t)
    THEN LET p == Pop(ms.evictions)
         IN legacyEvict(StoreOf(delete(ms.items, p.item.key), p.queue), t)
    ELSE ms

\* MemoryStore.Get
legacyGet(ms, t, sid) ==
    LET ev == legacyEvict(ms, t) IN
    IF sid \notin DOMAIN ev.items
    THEN [ms |-> ev, s |-> valueOf(0), err |-> "ErrSessionNotFound"]
    ELSE [ms |-> ev, s |-> ev.items[sid], err |-> Nil]

\* MemoryStore.Set
legacySet(ms, t, sid, s, ttl) ==
    LET ev == legacyEvict(ms, t) IN
    IF sid \in DOMAIN ev.items
    THEN [ms |-> ev, err |-> "ErrSessionExists"]
    ELSE [ms |-> StoreOf(insert(ev.items, sid, s), Push(ev.evictions, sid, t + ttl)),
          err |-> Nil]

\* MemoryStore.Del
legacyDel(ms, t, sid) ==
    LET ev == legacyEvict(ms, t) IN
    IF sid \notin DOMAIN ev.items
    THEN [ms |-> ev, err |-> "ErrSessionNotFound"]
    ELSE [ms |-> StoreOf(delete(ev.items, sid), ev.evictions), err |-> Nil]

\* MemoryStore.Set(k, v, ttl)
LegacySet(k, v, ttl) ==
    /\ Len(evictions) < MaxQueue
    /\ LET r == legacySet(StoreOf(items, evictions), now, k, valueOf(v), ttl)
       IN /\ items' = r.ms.items
          /\ evictions' = r.ms.evictions
          /\ req' = [op |-> "Set", sid |-> k, s |-> valueOf(v), err |-> r.err,
                     seq |-> 1 - req.seq]
          /\ callers' = IF r.err # Nil THEN callers
                        ELSE [callers EXCEPT ![k] =
                                [set |-> TRUE, t |-> now, ttl |-> ttl,
                                 v |-> valueOf(v), after |-> Expired(k),
                                 deleted |-> @.deleted, live |-> TRUE]]
    /\ UNCHANGED <<now, mu>>

\* MemoryStore.Get(k)
LegacyGet(k) ==
    /\ LET r == legacyGet(StoreOf(items, evictions), now, k)
       IN /\ items' = r.ms.items
          /\ evictions' = r.ms.evictions
          /\ req' = [op |-> "Get", sid |-> k, s |-> r.s, err |-> r.err,
                     seq |-> 1 - req.seq]
    /\ UNCHANGED <<now, mu, callers>>

\* MemoryStore.Del(k)
LegacyDel(k) ==
    /\ LET r == legacyDel(StoreOf(items, evictions), now, k)
       IN /\ items' = r.ms.items
          /\ evictions' = r.ms.evictions
          /\ req' = [op |-> "Del", sid |-> k, s |-> valueOf(0), err |-> r.err,
                     seq |-> 1 - req.seq]
          /\ callers' = IF r.err # Nil THEN callers
                        ELSE [callers EXCEPT ![k].deleted = TRUE,
                                             ![k].live = FALSE]
    /\ UNCHANGED <<now, mu>>

NextLegacy ==
    \/ Tick
    \/ \E k \in Keys, v \in 1..NumValues, ttl \in 1..MaxTTL : LegacySet(k, v, ttl)
    \/ \E k \in Keys : LegacyGet(k)
    \/ \E k \in Keys : LegacyDel(k)

SpecLegacy == InitStore /\ [][NextLegacy]_vars

\* C32: in the legacy MemoryStore, the entry Peek returns has the minimum
\* expiry of the queue; after a call at time t the queue holds no entry
\* whose expiry is before t; and a Get of a key made after the time of the
\* key's latest successful Set plus its ttl returns ErrSessionNotFound.
C32_LegacyEvicts ==
    [][req'.seq # req.seq
       => /\ Len(evictions) > 0
             => \A n \in 1..Len(evictions) :
                   ~Before(evictions[n].expires, legacyPeek(evictions).expires)
          /\ \A n \in 1..Len(evictions') : ~Before(evictions'[n].expires, now)
          /\ (req'.op = "Get" /\ Expired(req'.sid))
             => req'.err = "ErrSessionNotFound"]_vars

----------------------------------------------------------------------------
(* Frame conditions and invariants of package memory's Store (SpecStore).  *)

\* The store as the eviction pass of a call made now leaves it.
Evicted == evict(StoreOf(items, evictions), now)

\* The step is a call of op on the store.
StoreCall(op) == req'.seq # req.seq /\ req'.op = op

\* C33: a Set on a key that is present after the eviction pass returns
\* ErrSessionExists and leaves the item map and the eviction queue as the
\* eviction pass left them: the value under the key is not replaced and no
\* entry is pushed.  A Set on a key that is absent after the eviction pass
\* succeeds, stores its value and adds to the queue exactly one entry, for
\* the key and expiring at now + ttl.
C33_SetExistsNoEffect ==
    [][StoreCall("Set")
       => LET k == req'.sid
              e == [expires |-> now + callers'[k].ttl, key |-> k]
          IN /\ k \in DOMAIN Evicted.items
                => /\ req'.err = "ErrSessionExists"
                   /\ items' = Evicted.items
                   /\ items'[k] = items[k]
                   /\ evictions' = Evicted.evictions
                   /\ callers' = callers
             /\ k \notin DOMAIN Evicted.items
                => /\ req'.err = Nil
                   /\ items' = insert(Evicted.items, k, req'.s)
                   /\ callers'[k].t = now
                   /\ Len(evictions') = Len(Evicted.evictions) + 1
                   /\ Count(evictions', e) = Count(Evicted.evictions, e) + 1
                   /\ \A n \in 1..Len(Evicted.evictions) :
                         Evicted.evictions[n] # e
                         => Count(evictions', Evicted.evictions[n])
                            = Count(Evicted.evictions, Evicted.evictions[n])]_vars

\* A Set with another value on a stored key has returned ErrSessionExists.
C33_Witness ==
    /\ req.op = "Set"
    /\ req.err = "ErrSessionExists"
    /\ req.sid \in DOMAIN items
    /\ items[req.sid] # req.s
    /\ Len(evictions) = 1

\* The keys of the entries of the queue that expire before the clock's time:
\* those the eviction pass of a call made now pops.
PoppedKeys == {evictions[n].key : n \in {m \in 1..Len(evictions) :
                                           Before(evictions[m].expires, now)}}

\* C34: a Del of a key that is present after the eviction pass succeeds,
\* removes the key from the item map and leaves the eviction queue as the
\* eviction pass left it; a Del of an absent key returns
\* ErrSessionNotFound, and so does a Del of a key that was deleted since
\* it was last set; and the eviction pass of any call removes from the item
\* map the keys of the entries it pops and nothing else, so popping the
\* stale entry of a key with no record leaves the item map unchanged.
C34_DelLeavesQueue ==
    [][req'.seq # req.seq
       => LET k == req'.sid IN
          /\ DOMAIN Evicted.items = DOMAIN items \ PoppedKeys
          /\ \A x \in DOMAIN Evicted.items : Evicted.items[x] = items[x]
          /\ Len(Evicted.evictions)
                = Cardinality({n \in 1..Len(evictions) :
                                  ~Before(evictions[n].expires, now)})
          /\ req'.op = "Del"
             => /\ k \in DOMAIN Evicted.items
                   => /\ req'.err = Nil
                      /\ items' = delete(Evicted.items, k)
                      /\ evictions' = Evicted.evictions
                /\ k \notin DOMAIN Evicted.items
                   => /\ req'.err = "ErrSessionNotFound"
                      /\ items' = Evicted.items
                      /\ evictions' = Evicted.evictions
                /\ (callers[k].deleted /\ ~callers[k].live)
                   => req'.err = "ErrSessionNotFound"]_vars

\* A second Del of a key has returned ErrSessionNotFound while the stale
\* entry of the key is still in the queue.
C34_Witness ==
    /\ req.op = "Del"
    /\ req.err = "ErrSessionNotFound"
    /\ callers[req.sid].deleted
    /\ ~callers[req.sid].live
    /\ \E n \in 1..Len(evictions) : evictions[n].key = req.sid
    /\ DOMAIN items # {}

\* C40: after every Get, Set and Del, made at the clock's time, the
\* eviction queue holds no entry that expires before that time and every
\* key of the item map has an entry in the queue; and a key that had an
\* entry expiring before that time is gone from the item map after the
\* call, unless the call is a Set that stored the key anew.
C40_StoreInvariant ==
    [][req'.seq # req.seq
       => /\ \A n \in 1..Len(evictions') : ~Before(evictions'[n].expires, now)
          /\ \A k \in DOMAIN items' :
                \E n \in 1..Len(evictions') : evictions'[n].key = k
          /\ \A k \in PoppedKeys :
                \/ k \notin DOMAIN items'
                \/ /\ req'.op = "Set" /\ req'.sid = k /\ req'.err = Nil
                   /\ callers'[k].t = now]_vars

\* A Get found a key gone whose ttl had passed, while another key, whose
\* entry has not expired, is still stored.
C40_Witness ==
    /\ req.op = "Get"
    /\ req.err = "ErrSessionNotFound"
    /\ Expired(req.sid)
    /\ ~callers[req.sid].deleted
    /\ DOMAIN items # {}
    /\ Len(evictions) = 1

----------------------------------------------------------------------------
(* The sleeps of Backoff.Do (SpecRetry).                                   *)

\* C35: Do sleeps once between two consecutive attempts and not after the
\* last one, however that one ended: before every attempt as many sleeps
\* as attempts have been made, and when Do returns after at least one
\* attempt the number of sleeps is the number of calls of fn minus one.
C35_SleepsBetweenAttempts ==
    /\ req.pc = "call" => (req.sleeps = req.calls /\ req.calls = req.i - 1)
    /\ (req.pc = "returned" /\ req.calls >= 1) => req.sleeps = req.calls - 1
    /\ (req.pc = "returned" /\ req.calls = 0) => req.sleeps = 0

\* Do has given up after 4 attempts and 3 sleeps.
C35_Witness ==
    /\ req.pc = "returned"
    /\ req.n = 4
    /\ req.err = "ErrExhausted"
    /\ req.calls = 4
    /\ req.sleeps = 3

\* x to the power of n
RECURSIVE pow(_, _)
pow(x, n) == IF n = 0 THEN 1 ELSE x * pow(x, n - 1)

\* The running delay d of Do before its k-th sleep: Base, scaled by Growth
\* after each sleep.
RECURSIVE runningDelay(_, _)
runningDelay(b, k) ==
    IF k = 1 THEN b.Base ELSE scale(runningDelay(b, k - 1), b.Growth, 10)

\* The delays of the policy {Base=100ms, Growth=1.2, Jitter=0.1}: the three
\* sleeps of a 4-attempt budget lie in [90ms, 110ms], [108ms, 132ms] and
\* [129.6ms, 158.4ms].
ExampleDelays ==
    req.b = [Base |-> 1000, Growth |-> 12, Jitter |-> 1]
    => /\ req.sleeps = 1 => (900 <= req.delay /\ req.delay <= 1100)
       /\ req.sleeps = 2 => (1080 <= req.delay /\ req.delay <= 1320)
       /\ req.sleeps = 3 => (1296 <= req.delay /\ req.delay <= 1584)

C39_DoneWins ==
    (req.pc = "returned" /\ req.out \in {"doneAbort", "abortDone"})
    => /\ req.err = Nil
       /\ req.calls = req.doneAt
       /\ req.doneAt = req.abortAt

\* fn called Abort and then Done in its first attempt; Do returned nil.
C39_Witness ==
    /\ req.pc = "returned"
    /\ req.out = "abortDone"
    /\ req.calls = 1
    /\ req.n = 3
    /\ req.err = Nil

----------------------------------------------------------------------------
(* What the Manage middleware asks of the store (Spec).                    *)

\* The cookie of the request is a token that verifies under the session
\* role.
CookieVerified ==
    /\ req.cookie # NoToken
    /\ AuthVerify(sta, req.cookie).err = Nil

\* C37: the middleware calls Store.Get only with the value of a cookie that
\* verified under the session role, and with that value; for a request
\* without cookie or with a cookie that fails the verification it calls no
\* Store.Get, finds no session, and goes on to create the pre-session.
C37_GetOnlyVerified ==
    req.op = "manage"
    => /\ req.getKeys # {} => (CookieVerified /\ req.getKeys = {req.cookie})
       /\ ~CookieVerified
          => /\ req.getKeys = {}
             /\ req.cookieErr # Nil
             /\ req.got = NoSession
             /\ req.lookupErr = Nil
             /\ req.pc = "done" /\ req.handler => req.setCalls >= 1

\* A request with a CSRF token as its session cookie was served with a new
\* pre-session, and no Store.Get was called.
C37_Witness ==
    /\ req.op = "manage"
    /\ req.cookie = createCSRFToken(1)
    /\ req.getKeys = {}
    /\ req.pc = "done"
    /\ req.handler
    /\ req.s # NoSession
    /\ req.setCalls >= 1

\* C38: no step of a request in the middleware calls Store.Del, and a
\* record in the store before the step is there unchanged after it unless
\* its storage-level expiry has come.
C38_ManageNeverDeletes ==
    [][req'.op = "manage"
       => /\ req'.delCalls = 0
          /\ \A k \in DOMAIN items :
                \/ k \in DOMAIN items' /\ items'[k] = items[k]
                \/ k \notin DOMAIN Evicted.items]_vars

\* The middleware found the session of the cookie expired and served the
\* request with a new pre-session; the old record is still in the store.
C38_Witness ==
    /\ req.op = "manage"
    /\ req.lookupErr = "errExpiredSession"
    /\ req.pc = "done"
    /\ req.handler
    /\ req.s # NoSession
    /\ req.cookie \in DOMAIN items
    /\ req.s.ID # req.cookie
    /\ Before(items[req.cookie].Expiration, now)

====
